---- MODULE Spec2Model ----
(***************************************************************************)
(* A model of piper_sdk/client.py (PiperClient, SDK 0.2.0): the agent      *)
(* token cache, the local instance-id discovery, and the broker calls      *)
(* get_credential_id_for_variable, get_scoped_credentials_by_id and        *)
(* get_scoped_credentials_for_variable.                                    *)
(*                                                                         *)
(* Every method is a pure operator over a run record r (the client's       *)
(* fields, the clock, the requests sent so far) and an oracle o, the       *)
(* sequence of answers the network gives to the requests of one call: the  *)
(* i-th request of a call is answered by o[i].  An action of the state     *)
(* machine is one whole call of a method, for every oracle the network can *)
(* produce.  Calls take no model time; time passes between calls (Tick).   *)
(***************************************************************************)
EXTENDS Integers, Sequences, FiniteSets, TLC

VARIABLES
    now,             \* time.time(), in seconds
    discovered,      \* self._discovered_instance_id
    access_tokens,   \* self._access_tokens : (audience, instance_id) -> token
    token_expiries,  \* self._token_expiries: (audience, instance_id) -> expiry
    issued,          \* history: issued[n] is the token request answered with token n
    last,            \* history: the last call, its inputs, its requests, its outcome
    peer,            \* the fields of a second PiperClient of the process
    threads          \* two threads inside calls on the one client

vars == <<now, discovered, access_tokens, token_expiries, issued, last, peer, threads>>

----------------------------------------------------------------------------
(* Bounds of the model *)

StartTime == 100     \* the clock at construction
TickStep  == 30      \* seconds that pass in one Tick
MaxTicks  == 1       \* Ticks in one behaviour
MaxIssued == 2       \* tokens the token endpoint issues in one behaviour
MaxSecretIssued == 3 \* ... in one behaviour of get_secret (three audiences)

----------------------------------------------------------------------------
(* Python values *)

None    == "None"        \* Python None
Missing == "<missing>"   \* a key that a JSON object does not hold
NonStr  == "<non-str>"   \* a JSON value that is not a string (a number, a list)
NoStatus == 0            \* status_code = None of an exception without a response

DEFAULT_TOKEN_EXPIRY_BUFFER_SECONDS == 60

\* bool(x) of the values the model uses
Truthy(x) == x \notin {None, Missing, ""}

\* isinstance(x, str)
IsStr(x) == x \notin {None, Missing, NonStr}

\* dict.get(k, default)
Get(d, k, default) == IF k \in DOMAIN d THEN d[k] ELSE default

\* d[k] = v
Put(d, k, v) == [x \in DOMAIN d \cup {k} |-> IF x = k THEN v ELSE d[x]]

\* str.strip() on the strings of the model
Strip(s) ==
    CASE s = "  "   -> ""
      [] s = " v1 " -> "v1"
      [] s = " cred1 " -> "cred1"
      [] OTHER      -> s

\* f'http_{response.status_code}'
HttpCode(status) == "http_" \o ToString(status)

----------------------------------------------------------------------------
(* Configuration of the client *)

client_id           == "agent-1"
token_url           == "https://token"
resolve_mapping_url == "https://resolve"
get_scoped_url      == "https://getscoped"
piper_link_service_url == "http://localhost/piper-link-context"

Audiences   == {resolve_mapping_url, get_scoped_url}
InstanceIds == {"u1", "u2"}

----------------------------------------------------------------------------
(* Exceptions.  Bases(c) is the set of classes an exception of class c is   *)
(* an instance of: the classes of client.py, and those of requests and of   *)
(* the builtins that the except clauses of client.py name.  requests'      *)
(* JSONDecodeError derives from RequestException (InvalidJSONError) and     *)
(* from json.JSONDecodeError, a ValueError.                                 *)

Bases(c) ==
    CASE c = "PiperError"           -> {"PiperError", "Exception"}
      [] c = "PiperAuthError"       -> {"PiperAuthError", "PiperError", "Exception"}
      [] c = "PiperConfigError"     -> {"PiperConfigError", "PiperError", "Exception"}
      [] c = "PiperLinkNeededError" -> {"PiperLinkNeededError", "PiperConfigError",
                                        "PiperError", "Exception"}
      [] c = "ValueError"           -> {"ValueError", "Exception"}
      [] c = "AttributeError"       -> {"AttributeError", "Exception"}
      [] c = "TypeError"            -> {"TypeError", "Exception"}
      [] c = "ConnectionError"      -> {"ConnectionError", "RequestException", "Exception"}
      [] c = "Timeout"              -> {"Timeout", "RequestException", "Exception"}
      [] c = "HTTPError"            -> {"HTTPError", "RequestException", "Exception"}
      [] c = "JSONDecodeError"      -> {"JSONDecodeError", "RequestException",
                                        "ValueError", "Exception"}
      [] OTHER                      -> {}

\* isinstance(e, cls)
IsInstance(e, cls) == cls \in Bases(e.cls)

\* An exception object: its class, PiperAuthError's status_code and error_code,
\* the status of e.response (NoStatus: e.response is None), and what its
\* message embeds.
Exc(cls, status_code, error_code, response, parts) ==
    [cls |-> cls, status_code |-> status_code, error_code |-> error_code,
     response |-> response, parts |-> parts]

NoExc == Exc("none", NoStatus, None, NoStatus, {})

Return(v) == [kind |-> "return", value |-> v, exc |-> NoExc]
Raise(e)  == [kind |-> "raise", value |-> None, exc |-> e]

----------------------------------------------------------------------------
(* The network.  A response, or the failure of the transport.               *)

Resp0 ==
    [net |-> "ok",           \* "ok", or the exception session.get/post raises
     status |-> 200,         \* response.status_code
     form |-> "obj",         \* the body: "text" (no JSON), "nonobj" (JSON, not an
                             \* object: a number), "obj" (a JSON object with
                             \* these keys)
     error |-> Missing,
     access_token |-> Missing,
     expires_in |-> [t |-> "missing", n |-> 0],
     credentialId |-> Missing,
     has_granted |-> FALSE,
     granted |-> {},
     instanceId |-> Missing,
     secret_value |-> Missing]

\* The answer to a request that the oracle does not cover
DefaultResp == [Resp0 EXCEPT !.net = "Timeout"]

\* A request sent with session.get / session.post
Request(to, audience, hint, bearer, payload) ==
    [to |-> to, audience |-> audience, hint |-> hint, bearer |-> bearer,
     payload |-> payload]

\* session.post(...) / session.get(...): the request is sent and the oracle
\* answers it.
Send(r, req, o) ==
    LET i == Len(r.log) + 1
    IN  [r    |-> [r EXCEPT !.log = Append(@, req)],
         resp |-> IF i <= Len(o) THEN o[i] ELSE DefaultResp]

\* The token string of the n-th token the endpoint issues
Token(n) == "tok" \o ToString(n)

----------------------------------------------------------------------------
(* The token endpoint issues a new token for every request it answers with *)
(* "fresh" as access_token; issued records the request it answered.        *)

Issue(r, req, resp) ==
    IF resp.net = "ok" /\ resp.access_token = "fresh"
    THEN [r EXCEPT !.issued = Append(@, req)]
    ELSE r

AccessTokenOf(r, resp) ==
    IF resp.net = "ok" /\ resp.access_token = "fresh"
    THEN Token(Len(r.issued))
    ELSE resp.access_token

----------------------------------------------------------------------------
(* discover_local_instance_id *)

\* The try block: the instanceId of the response, or the exception raised
discover_try(resp) ==
    IF resp.net # "ok" THEN Raise(Exc(resp.net, NoStatus, None, NoStatus, {}))
    ELSE IF resp.status >= 400
         THEN Raise(Exc("HTTPError", NoStatus, None, resp.status, {}))   \* raise_for_status
    ELSE IF resp.form = "text"
         THEN Raise(Exc("JSONDecodeError", NoStatus, None, NoStatus, {}))  \* response.json()
    ELSE IF resp.form = "nonobj"
         THEN Raise(Exc("AttributeError", NoStatus, None, NoStatus, {}))   \* data.get
    ELSE Return(IF resp.instanceId = Missing THEN None ELSE resp.instanceId)

\* (mutation: the except clauses are missing, the exception reaches the caller)
discover_local_instance_id_Raises(r, force_refresh, o) ==
    IF Truthy(r.disc) /\ ~force_refresh
    THEN [r |-> r, out |-> Return(r.disc)]
    ELSE LET s == Send(r, Request("discovery", None, None, None, None), o)
             t == discover_try(s.resp)
         IN  IF t.kind = "raise" THEN [r |-> s.r, out |-> t]
             ELSE IF Truthy(t.value) /\ IsStr(t.value)
             THEN [r |-> [s.r EXCEPT !.disc = t.value], out |-> Return(t.value)]
             ELSE [r |-> [s.r EXCEPT !.disc = None], out |-> Return(None)]

\* (mutation: a failed attempt leaves the cached id as it was)
discover_local_instance_id_KeepOnFailure(r, force_refresh, o) ==
    IF Truthy(r.disc) /\ ~force_refresh
    THEN [r |-> r, out |-> Return(r.disc)]
    ELSE LET s == Send(r, Request("discovery", None, None, None, None), o)
             t == discover_try(s.resp)
         IN  IF t.kind = "return" /\ Truthy(t.value) /\ IsStr(t.value)
             THEN [r |-> [s.r EXCEPT !.disc = t.value], out |-> Return(t.value)]
             ELSE [r |-> s.r, out |-> Return(None)]

discover_local_instance_id(r, force_refresh, o) ==
    IF Truthy(r.disc) /\ ~force_refresh
    THEN [r |-> r, out |-> Return(r.disc)]
    ELSE LET s == Send(r, Request("discovery", None, None, None, None), o)
             t == discover_try(s.resp)
         IN  IF t.kind = "return" /\ Truthy(t.value) /\ IsStr(t.value)
             THEN [r |-> [s.r EXCEPT !.disc = t.value], out |-> Return(t.value)]
             ELSE \* the else branch and every except clause: cache the failure
                  [r |-> [s.r EXCEPT !.disc = None], out |-> Return(None)]

----------------------------------------------------------------------------
(* _fetch_agent_token *)

\* (mutation: the parameter is sent whatever instance_id is)
InstanceHint_Always(instance_id) == instance_id

\* data_dict['piper_link_instance_id'], or None when it is not sent
InstanceHint(instance_id) == IF Truthy(instance_id) THEN instance_id ELSE None

\* int(expires_in_raw), 0 on ValueError / TypeError; a missing key reads as 0
ExpiresIn(raw) ==
    CASE raw.t = "int"    -> raw.n
      [] raw.t = "numstr" -> raw.n       \* "120"
      [] OTHER            -> 0           \* missing, null, "abc"

\* (mutation: the lifetime is taken for the expiry)
ExpiryTimestamp_NoStart(request_start_time, expires_in) == expires_in

ExpiryTimestamp(request_start_time, expires_in) == request_start_time + expires_in

\* error_code of a 4xx/5xx response whose body response.json() and .get accept
ErrorCode(resp) ==
    IF resp.form = "obj" /\ resp.error # Missing THEN resp.error
    ELSE HttpCode(resp.status)

IsErrorStatus(status) == 400 <= status /\ status < 600

\* The try block of _fetch_agent_token
fetch_try(r, audience, instance_id, o) ==
    LET req  == Request("token", audience, InstanceHint(instance_id), None, None)
        request_start_time == r.clock
        s    == Send(r, req, o)
        resp == s.resp
        r1   == Issue(s.r, req, resp)
        access_token == AccessTokenOf(r1, resp)
        expires_in   == ExpiresIn(resp.expires_in)
    IN  IF resp.net # "ok"
        THEN [r |-> r1, out |-> Raise(Exc(resp.net, NoStatus, None, NoStatus, {}))]
        ELSE IF IsErrorStatus(resp.status)
        THEN IF resp.form = "nonobj"
             THEN [r |-> r1, out |-> Raise(Exc("AttributeError", NoStatus, None, NoStatus, {}))]
             ELSE [r |-> r1, out |-> Raise(Exc("PiperAuthError", resp.status, ErrorCode(resp),
                                               NoStatus, {"API error obtaining agent token"}))]
        ELSE IF resp.form = "text"
        THEN [r |-> r1, out |-> Raise(Exc("JSONDecodeError", NoStatus, None, NoStatus, {}))]
        ELSE IF resp.form = "nonobj"
        THEN [r |-> r1, out |-> Raise(Exc("AttributeError", NoStatus, None, NoStatus, {}))]
        ELSE IF ~Truthy(access_token)
        THEN [r |-> r1, out |-> Raise(Exc("PiperAuthError", resp.status, None, NoStatus,
                                          {"Failed to obtain access token"}))]
        ELSE [r |-> r1,
              out |-> Return([access_token |-> access_token,
                              expiry_timestamp |->
                                  ExpiryTimestamp(request_start_time, expires_in)])]

\* The except clauses of _fetch_agent_token, in their order:
\*   except RequestException -> PiperAuthError(status_code = e.response's status)
\*   except Exception        -> PiperAuthError without status_code and error_code
\* A PiperAuthError raised in the try block is an Exception, and no clause re-raises it.
fetch_except(e) ==
    IF IsInstance(e, "RequestException")
    THEN Exc("PiperAuthError", e.response, None, NoStatus, {"Request failed for agent token"})
    ELSE Exc("PiperAuthError", NoStatus, None, NoStatus,
             {"An unexpected error occurred fetching agent token"})

\* (mutation: a failed token request is sent a second time)
fetch_agent_token_Retry(r, audience, instance_id, o) ==
    LET t  == fetch_try(r, audience, instance_id, o)
        t2 == fetch_try(t.r, audience, instance_id, o)
    IN  IF t.out.kind = "return" THEN t
        ELSE IF t2.out.kind = "return" THEN t2
        ELSE [r |-> t2.r, out |-> Raise(fetch_except(t2.out.exc))]

\* The outcome of _fetch_agent_token, from the outcome t of its try block
fetch_outcome(t) ==
    IF t.out.kind = "return" THEN t
    ELSE [r |-> t.r, out |-> Raise(fetch_except(t.out.exc))]

fetch_agent_token(r, audience, instance_id, o) ==
    fetch_outcome(fetch_try(r, audience, instance_id, o))

----------------------------------------------------------------------------
(* _get_valid_agent_token *)

\* (mutation: the cache is keyed by the audience alone)
CacheKey_AudienceOnly(audience, instance_id) == <<audience, None>>

CacheKey(audience, instance_id) == <<audience, instance_id>>

\* (mutation: a token that expires exactly at the buffer is served)
CacheValid_Inclusive(force_refresh, cached_token, cached_expiry, t) ==
    /\ ~force_refresh
    /\ Truthy(cached_token)
    /\ cached_expiry >= t + DEFAULT_TOKEN_EXPIRY_BUFFER_SECONDS

\* (mutation: the buffer is applied twice)
CacheValid_DoubleBuffer(force_refresh, cached_token, cached_expiry, t) ==
    /\ ~force_refresh
    /\ Truthy(cached_token)
    /\ cached_expiry > t + 2 * DEFAULT_TOKEN_EXPIRY_BUFFER_SECONDS

\* The condition under which the cached token is returned
CacheValid(force_refresh, cached_token, cached_expiry, t) ==
    /\ ~force_refresh
    /\ Truthy(cached_token)
    /\ cached_expiry > t + DEFAULT_TOKEN_EXPIRY_BUFFER_SECONDS

\* self._access_tokens[cache_key] = access_token; self._token_expiries[cache_key] = expiry
StoreToken(r, cache_key, access_token, expiry_timestamp) ==
    [r EXCEPT !.toks = Put(@, cache_key, access_token),
              !.exps = Put(@, cache_key, expiry_timestamp)]

\* (mutation: a failed fetch removes the token of the key)
store_fetched_ClearOnFailure(f, cache_key) ==
    IF f.out.kind = "raise"
    THEN [r |-> StoreToken(f.r, cache_key, None, 0), out |-> f.out]
    ELSE [r   |-> StoreToken(f.r, cache_key, f.out.value.access_token,
                             f.out.value.expiry_timestamp),
          out |-> Return(f.out.value.access_token)]

\* The lines after the call of _fetch_agent_token, whose outcome is f: an
\* exception passes through, a token is cached and returned
store_fetched(f, cache_key) ==
    IF f.out.kind = "raise" THEN f
    ELSE [r   |-> StoreToken(f.r, cache_key, f.out.value.access_token,
                             f.out.value.expiry_timestamp),
          out |-> Return(f.out.value.access_token)]

get_valid_agent_token(r, audience, instance_id, force_refresh, o) ==
    LET cache_key     == CacheKey(audience, instance_id)
        cached_token  == Get(r.toks, cache_key, None)
        cached_expiry == Get(r.exps, cache_key, 0)
    IN  IF CacheValid(force_refresh, cached_token, cached_expiry, r.clock)
        THEN [r |-> r, out |-> Return(cached_token)]
        ELSE store_fetched(fetch_agent_token(r, audience, instance_id, o), cache_key)

----------------------------------------------------------------------------
(* _get_instance_id_or_raise *)

\* The lines after the call of discover_local_instance_id, whose outcome is d
discovered_or_raise(d) ==
    IF Truthy(d.out.value) THEN d
    ELSE [r |-> d.r,
          out |-> Raise(Exc("PiperLinkNeededError", NoStatus, None, NoStatus,
                            {"Piper Link instanceId not provided"}))]

\* (mutation: the cached id is preferred to the explicit one)
get_instance_id_or_raise_CachedFirst(r, instance_id_param, o) ==
    IF Truthy(r.disc) THEN [r |-> r, out |-> Return(r.disc)]
    ELSE IF Truthy(instance_id_param) THEN [r |-> r, out |-> Return(instance_id_param)]
    ELSE discovered_or_raise(discover_local_instance_id(r, FALSE, o))

get_instance_id_or_raise(r, instance_id_param, o) ==
    IF Truthy(instance_id_param) THEN [r |-> r, out |-> Return(instance_id_param)]
    ELSE IF Truthy(r.disc) THEN [r |-> r, out |-> Return(r.disc)]
    ELSE discovered_or_raise(discover_local_instance_id(r, FALSE, o))

----------------------------------------------------------------------------
(* get_credential_id_for_variable *)

\* (mutation: the expiry is zeroed under the key without user context)
ExpireToken_NoContext(r, audience, instance_id) ==
    [r EXCEPT !.exps = Put(@, <<audience, None>>, 0)]

\* self._token_expiries[(target_audience, target_instance_id)] = 0
ExpireToken(r, audience, instance_id) ==
    [r EXCEPT !.exps = Put(@, <<audience, instance_id>>, 0)]

\* The 4xx/5xx branch of the mapping call, for a body that parses
resolve_error(r, resp, trimmed_variable_name, target_instance_id) ==
    LET error_code == ErrorCode(resp)
        r1 == IF resp.status = 401 \/ error_code = "invalid_token"
              THEN ExpireToken(r, resolve_mapping_url, target_instance_id)
              ELSE r
    IN  IF resp.status = 404 \/ error_code = "mapping_not_found"
        THEN [r |-> r1,
              out |-> Raise(Exc("PiperAuthError", 404, "mapping_not_found", NoStatus,
                                {"No active grant mapping found", trimmed_variable_name,
                                 target_instance_id}))]
        ELSE [r |-> r1,
              out |-> Raise(Exc("PiperAuthError", resp.status, error_code, NoStatus,
                                {"Failed to resolve variable mapping"}))]

\* (mutation: the identifier of an earlier resolution is returned)
resolve_response_Remembered(s, trimmed_variable_name, target_instance_id) ==
    IF s.resp.net = "ok" /\ ~IsErrorStatus(s.resp.status) /\ s.resp.form = "obj"
       /\ Truthy(s.resp.credentialId) /\ IsStr(s.resp.credentialId)
    THEN [r |-> s.r, out |-> Return("cred1")]
    ELSE [r |-> s.r, out |-> Raise(Exc("PiperAuthError", s.resp.status, None, NoStatus, {}))]

\* The try block after the POST, s being the request sent and its answer
resolve_response(s, trimmed_variable_name, target_instance_id) ==
    LET resp == s.resp
        credential_id == IF resp.credentialId = Missing THEN None ELSE resp.credentialId
    IN  IF resp.net # "ok"
        THEN [r |-> s.r, out |-> Raise(Exc(resp.net, NoStatus, None, NoStatus, {}))]
        ELSE IF IsErrorStatus(resp.status)
        THEN IF resp.form = "nonobj"
             THEN [r |-> s.r, out |-> Raise(Exc("AttributeError", NoStatus, None, NoStatus, {}))]
             ELSE resolve_error(s.r, resp, trimmed_variable_name, target_instance_id)
        ELSE IF resp.form = "text"
        THEN [r |-> s.r, out |-> Raise(Exc("JSONDecodeError", NoStatus, None, NoStatus, {}))]
        ELSE IF resp.form = "nonobj"
        THEN [r |-> s.r, out |-> Raise(Exc("AttributeError", NoStatus, None, NoStatus, {}))]
        ELSE IF ~Truthy(credential_id) \/ ~IsStr(credential_id)
        THEN [r |-> s.r, out |-> Raise(Exc("PiperAuthError", resp.status, None, NoStatus,
                                           {"missing credentialId"}))]
        ELSE [r |-> s.r, out |-> Return(credential_id)]

\* The try block after the call of _get_valid_agent_token, whose outcome is tk
resolve_post(tk, trimmed_variable_name, target_instance_id, o) ==
    IF tk.out.kind = "raise" THEN tk
    ELSE resolve_response(
             Send(tk.r, Request("mapping", resolve_mapping_url, target_instance_id,
                                tk.out.value, trimmed_variable_name), o),
             trimmed_variable_name, target_instance_id)

\* The try block
resolve_try(r, trimmed_variable_name, target_instance_id, o) ==
    resolve_post(get_valid_agent_token(r, resolve_mapping_url, target_instance_id, FALSE, o),
                 trimmed_variable_name, target_instance_id, o)

\* The except clauses, in their order:
\*   except (PiperAuthError, PiperLinkNeededError, ValueError): raise
\*   except RequestException -> PiperAuthError
\*   except Exception        -> PiperError
resolve_except(e) ==
    IF IsInstance(e, "PiperAuthError") \/ IsInstance(e, "PiperLinkNeededError")
       \/ IsInstance(e, "ValueError")
    THEN e
    ELSE IF IsInstance(e, "RequestException")
    THEN Exc("PiperAuthError", e.response, None, NoStatus,
             {"Network error resolving variable mapping"})
    ELSE Exc("PiperError", NoStatus, None, NoStatus,
             {"An unexpected error occurred resolving variable mapping"})

ValueError(msg) == Exc("ValueError", NoStatus, None, NoStatus, {msg})

\* The outcome of the try statement, from the outcome t of its try block
resolve_outcome(t) ==
    IF t.out.kind = "return" THEN t
    ELSE [r |-> t.r, out |-> Raise(resolve_except(t.out.exc))]

\* The method after the call of _get_instance_id_or_raise, whose outcome is g
resolve_in_context(g, variable_name, o) ==
    LET target_instance_id == g.out.value
        trimmed_variable_name == Strip(variable_name)
    IN  IF g.out.kind = "raise" THEN g
        ELSE IF ~Truthy(variable_name) \/ ~IsStr(variable_name)
        THEN [r |-> g.r, out |-> Raise(ValueError("variable_name must be non-empty string."))]
        ELSE IF ~Truthy(trimmed_variable_name)
        THEN [r |-> g.r, out |-> Raise(ValueError("variable_name cannot be empty."))]
        ELSE resolve_outcome(resolve_try(g.r, trimmed_variable_name, target_instance_id, o))

get_credential_id_for_variable(r, variable_name, instance_id, o) ==
    resolve_in_context(get_instance_id_or_raise(r, instance_id, o), variable_name, o)

----------------------------------------------------------------------------
(* get_scoped_credentials_by_id *)

\* [str(cid).strip() for cid in credential_ids if str(cid).strip()]
RECURSIVE Cleaned(_)
Cleaned(ids) ==
    IF ids = <<>> THEN <<>>
    ELSE IF Truthy(Strip(Head(ids)))
         THEN <<Strip(Head(ids))>> \o Cleaned(Tail(ids))
         ELSE Cleaned(Tail(ids))

\* error_code or default
OrDefault(error_code, default) == IF Truthy(error_code) THEN error_code ELSE default

\* The 4xx/5xx branch of the scoped-credentials call, for a body that parses
scoped_error(r, resp, target_instance_id) ==
    LET error_code == ErrorCode(resp)
    IN  IF resp.status = 401 \/ error_code = "invalid_token"
        THEN [r |-> ExpireToken(r, get_scoped_url, target_instance_id),
              out |-> Raise(Exc("PiperAuthError", 401, OrDefault(error_code, "invalid_token"),
                                NoStatus, {"Agent authentication failed"}))]
        ELSE IF resp.status = 403 \/ error_code = "permission_denied"
        THEN [r |-> r,
              out |-> Raise(Exc("PiperAuthError", 403,
                                OrDefault(error_code, "permission_denied"),
                                NoStatus, {"Permission denied"}))]
        ELSE [r |-> r,
              out |-> Raise(Exc("PiperAuthError", resp.status, error_code, NoStatus,
                                {"Failed to get scoped credentials"}))]

\* scoped_data = response.json() of the JSON object resp
ScopedData(resp) ==
    [access_token |-> resp.access_token,
     expires_in |-> resp.expires_in,
     granted_credential_ids |-> resp.granted]

\* set(cleaned_credential_ids) of the request last sent
RequestedSet(r) ==
    LET ids == r.log[Len(r.log)].payload
    IN  {ids[k] : k \in DOMAIN ids}

\* (mutation: a grant that differs from the request is an error)
scoped_success_StrictGrant(s) ==
    LET resp == s.resp
    IN  IF resp.form = "text"
        THEN [r |-> s.r, out |-> Raise(Exc("JSONDecodeError", NoStatus, None, NoStatus, {}))]
        ELSE IF resp.form = "nonobj"
        THEN [r |-> s.r, out |-> Raise(Exc("TypeError", NoStatus, None, NoStatus, {}))]
        ELSE IF resp.access_token = Missing \/ ~resp.has_granted
        THEN [r |-> s.r, out |-> Raise(Exc("PiperAuthError", resp.status, None, NoStatus,
                                           {"unexpected response format"}))]
        ELSE IF RequestedSet(s.r) # resp.granted
        THEN [r |-> s.r, out |-> Raise(Exc("PiperAuthError", resp.status, None, NoStatus,
                                           {"partial grant"}))]
        ELSE [r |-> s.r, out |-> Return(ScopedData(resp))]

\* The try block after the 4xx/5xx branch: the body is parsed and validated; a
\* grant that differs from the request is logged and returned as it is
scoped_success(s) ==
    LET resp == s.resp
    IN  IF resp.form = "text"
        THEN [r |-> s.r, out |-> Raise(Exc("JSONDecodeError", NoStatus, None, NoStatus, {}))]
        ELSE IF resp.form = "nonobj"      \* 'access_token' not in <a number>
        THEN [r |-> s.r, out |-> Raise(Exc("TypeError", NoStatus, None, NoStatus, {}))]
        ELSE IF resp.access_token = Missing \/ ~resp.has_granted
        THEN [r |-> s.r, out |-> Raise(Exc("PiperAuthError", resp.status, None, NoStatus,
                                           {"unexpected response format"}))]
        ELSE [r |-> s.r, out |-> Return(ScopedData(resp))]

\* The try block after the POST, s being the request sent and its answer
scoped_response(s, target_instance_id) ==
    LET resp == s.resp
    IN  IF resp.net # "ok"
        THEN [r |-> s.r, out |-> Raise(Exc(resp.net, NoStatus, None, NoStatus, {}))]
        ELSE IF IsErrorStatus(resp.status)
        THEN IF resp.form = "nonobj"
             THEN [r |-> s.r, out |-> Raise(Exc("AttributeError", NoStatus, None, NoStatus, {}))]
             ELSE scoped_error(s.r, resp, target_instance_id)
        ELSE scoped_success(s)

\* The try block after the call of _get_valid_agent_token, whose outcome is tk
scoped_post(tk, cleaned_credential_ids, target_instance_id, o) ==
    IF tk.out.kind = "raise" THEN tk
    ELSE scoped_response(
             Send(tk.r, Request("scoped", get_scoped_url, target_instance_id,
                                tk.out.value, cleaned_credential_ids), o),
             target_instance_id)

\* The try block
scoped_try(r, cleaned_credential_ids, target_instance_id, o) ==
    scoped_post(get_valid_agent_token(r, get_scoped_url, target_instance_id, FALSE, o),
                cleaned_credential_ids, target_instance_id, o)

\* The except clauses, in their order (the same three as in
\* get_credential_id_for_variable)
scoped_except(e) ==
    IF IsInstance(e, "PiperAuthError") \/ IsInstance(e, "PiperLinkNeededError")
       \/ IsInstance(e, "ValueError")
    THEN e
    ELSE IF IsInstance(e, "RequestException")
    THEN Exc("PiperAuthError", e.response, None, NoStatus,
             {"Network error getting scoped credentials"})
    ELSE Exc("PiperError", NoStatus, None, NoStatus,
             {"An unexpected error occurred getting scoped credentials"})

\* The outcome of the try statement, from the outcome t of its try block
scoped_outcome(t) ==
    IF t.out.kind = "return" THEN t
    ELSE [r |-> t.r, out |-> Raise(scoped_except(t.out.exc))]

\* The method after the call of _get_instance_id_or_raise, whose outcome is g
scoped_in_context(g, credential_ids, o) ==
    LET target_instance_id == g.out.value
        cleaned_credential_ids == Cleaned(credential_ids.items)
    IN  IF g.out.kind = "raise" THEN g
        ELSE IF credential_ids.items = <<>> \/ ~credential_ids.list
        THEN [r |-> g.r, out |-> Raise(ValueError("credential_ids must be a non-empty list."))]
        ELSE IF cleaned_credential_ids = <<>>
        THEN [r |-> g.r,
              out |-> Raise(ValueError("credential_ids list contains only empty strings."))]
        ELSE scoped_outcome(scoped_try(g.r, cleaned_credential_ids, target_instance_id, o))

\* credential_ids is [list |-> isinstance(credential_ids, list), items |-> its items]
get_scoped_credentials_by_id(r, credential_ids, instance_id, o) ==
    scoped_in_context(get_instance_id_or_raise(r, instance_id, o), credential_ids, o)

----------------------------------------------------------------------------
(* get_scoped_credentials_for_variable *)

\* (mutation: the exchange is made whatever the outcome of the mapping call)
for_variable_scoped_Always(c, target_instance_id, o) ==
    get_scoped_credentials_by_id(
        c.r,
        [list |-> TRUE,
         items |-> <<IF c.out.kind = "return" THEN c.out.value ELSE "str(None)">>],
        target_instance_id, o)

\* The method after the call of get_credential_id_for_variable, whose outcome is c
for_variable_scoped(c, target_instance_id, o) ==
    IF c.out.kind = "raise" THEN c
    ELSE get_scoped_credentials_by_id(c.r, [list |-> TRUE, items |-> <<c.out.value>>],
                                      target_instance_id, o)

\* (mutation: the nested calls resolve the user context themselves)
for_variable_in_context_Rediscover(g, variable_name, o) ==
    IF g.out.kind = "raise" THEN g
    ELSE for_variable_scoped(
             get_credential_id_for_variable(g.r, variable_name, None, o),
             None, o)

\* The method after the call of _get_instance_id_or_raise, whose outcome is g
for_variable_in_context(g, variable_name, o) ==
    IF g.out.kind = "raise" THEN g
    ELSE for_variable_scoped(
             get_credential_id_for_variable(g.r, variable_name, g.out.value, o),
             g.out.value, o)

get_scoped_credentials_for_variable(r, variable_name, instance_id, o) ==
    for_variable_in_context(get_instance_id_or_raise(r, instance_id, o), variable_name, o)

----------------------------------------------------------------------------
(* get_secret, exchange_for_raw_secret and the environment fallback.        *)
(* client.py does not hold them; they follow sections 4.4 to 4.6 of the     *)
(* specification, on top of the methods above.  The options a of a call     *)
(* are its arguments, the client's fallback and exchange settings, and      *)
(* env_value, the value of the environment variable the name resolves to    *)
(* (None when it is not set).                                               *)

exchange_secret_url == "https://exchangesecret"

\* The uniform result of get_secret
SecretResult(source, value, credential_id, instance_id) ==
    [source |-> source, value |-> value,
     piper_credential_id |-> credential_id, piper_instance_id |-> instance_id]

\* 4.5: the value of the environment variable if it is set and non-empty
get_fallback(a) == IF Truthy(a.env_value) THEN a.env_value ELSE None

\* The errors after which the fallback is consulted: context needed, grant
\* needed, any AuthError (the exchange error is one)
FallbackEligible(e) ==
    \/ IsInstance(e, "PiperLinkNeededError")
    \/ IsInstance(e, "PiperAuthError")
    \/ e.cls = "PiperRawSecretExchangeError"

\* (mutation: the fallback is consulted after an AuthError only)
fallback_or_raise_AuthOnly(res, a) ==
    IF a.enable_env_fallback /\ IsInstance(res.out.exc, "PiperAuthError")
       /\ get_fallback(a) # None
    THEN [r |-> res.r,
          out |-> Return(SecretResult("environment_variable", get_fallback(a), None, None))]
    ELSE res

\* 4.6, the branching of steps 1 to 4 on a failure res of the broker path
fallback_or_raise(res, a) ==
    IF a.enable_env_fallback /\ FallbackEligible(res.out.exc) /\ get_fallback(a) # None
    THEN [r |-> res.r,
          out |-> Return(SecretResult("environment_variable", get_fallback(a), None, None))]
    ELSE res

\* 4.4, secondary operation, after the POST
exchange_response(s) ==
    LET resp == s.resp
    IN  IF resp.net # "ok"
        THEN [r |-> s.r, out |-> Raise(Exc("PiperRawSecretExchangeError", NoStatus, None,
                                           NoStatus, {"exchange request failed"}))]
        ELSE IF IsErrorStatus(resp.status)
        THEN [r |-> s.r, out |-> Raise(Exc("PiperRawSecretExchangeError", resp.status,
                                           ErrorCode(resp), NoStatus, {"exchange failed"}))]
        ELSE IF resp.form # "obj" \/ ~Truthy(resp.secret_value)
        THEN [r |-> s.r, out |-> Raise(Exc("PiperRawSecretExchangeError", resp.status, None,
                                           NoStatus, {"missing secret_value"}))]
        ELSE [r |-> s.r, out |-> Return(resp.secret_value)]

\* ... after the token for the exchange audience, whose outcome is tk
exchange_post(tk, credential_id, instance_id, o) ==
    IF tk.out.kind = "raise" THEN tk
    ELSE exchange_response(
             Send(tk.r, Request("exchange", exchange_secret_url, instance_id,
                                tk.out.value, credential_id), o))

\* 4.4, secondary operation, with the exchange endpoint configured
exchange_for_raw_secret(r, credential_id, instance_id, o) ==
    exchange_post(get_valid_agent_token(r, exchange_secret_url, instance_id, FALSE, o),
                  credential_id, instance_id, o)

\* (mutation: the raw secret is returned under the tag of the STS result)
secret_exchanged_StsTag(x, credential_id, instance_id, a) ==
    IF x.out.kind = "raise" THEN fallback_or_raise(x, a)
    ELSE [r |-> x.r,
          out |-> Return(SecretResult("piper_sts", x.out.value,
                                      credential_id, instance_id))]

\* 4.6 step 4 and 5 for the raw secret, x being the outcome of the exchange
secret_exchanged(x, credential_id, instance_id, a) ==
    IF x.out.kind = "raise" THEN fallback_or_raise(x, a)
    ELSE [r |-> x.r,
          out |-> Return(SecretResult("piper_raw_secret", x.out.value,
                                      credential_id, instance_id))]

\* (mutation: without an exchange endpoint the STS result is returned)
secret_scoped_StsWhenUnconfigured(sc, credential_id, instance_id, a, o) ==
    IF sc.out.kind = "raise" THEN fallback_or_raise(sc, a)
    ELSE IF ~a.fetch_raw_secret \/ ~a.exchange_configured
    THEN [r |-> sc.r,
          out |-> Return(SecretResult("piper_sts", sc.out.value.access_token,
                                      credential_id, instance_id))]
    ELSE secret_exchanged(exchange_for_raw_secret(sc.r, credential_id, instance_id, o),
                          credential_id, instance_id, a)

\* 4.6 step 3 to 5, sc being the outcome of the scoped exchange
secret_scoped(sc, credential_id, instance_id, a, o) ==
    IF sc.out.kind = "raise" THEN fallback_or_raise(sc, a)
    ELSE IF ~a.fetch_raw_secret
    THEN [r |-> sc.r,
          out |-> Return(SecretResult("piper_sts", sc.out.value.access_token,
                                      credential_id, instance_id))]
    ELSE IF ~a.exchange_configured
    THEN [r |-> sc.r,
          out |-> Raise(Exc("PiperConfigError", NoStatus, None, NoStatus,
                            {"'exchange_secret_url' is not configured"}))]
    ELSE secret_exchanged(exchange_for_raw_secret(sc.r, credential_id, instance_id, o),
                          credential_id, instance_id, a)

\* 4.6 step 2, c being the outcome of the mapping resolution
secret_resolved(c, instance_id, a, o) ==
    IF c.out.kind = "raise" THEN fallback_or_raise(c, a)
    ELSE secret_scoped(
             get_scoped_credentials_by_id(c.r, [list |-> TRUE, items |-> <<c.out.value>>],
                                          instance_id, o),
             c.out.value, instance_id, a, o)

\* 4.6 step 1, g being the outcome of the context resolution
secret_in_context(g, a, o) ==
    IF g.out.kind = "raise" THEN fallback_or_raise(g, a)
    ELSE secret_resolved(
             get_credential_id_for_variable(g.r, a.variable_name, g.out.value, o),
             g.out.value, a, o)

get_secret(r, a, o) ==
    secret_in_context(get_instance_id_or_raise(r, a.instance_id, o), a, o)

----------------------------------------------------------------------------
(* What the network can answer *)

TransportFailures ==
    {[Resp0 EXCEPT !.net = n] : n \in {"Timeout", "ConnectionError"}}

\* 4xx/5xx responses: a text body, a JSON body that is no object, and a JSON
\* object with or without an error code
ErrorResponses(statuses, codes) ==
    {[Resp0 EXCEPT !.status = st, !.form = f] : st \in statuses, f \in {"text", "nonobj"}}
    \cup {[Resp0 EXCEPT !.status = st, !.error = c] : st \in statuses, c \in codes \cup {Missing}}

\* 2xx responses whose body is no JSON object
BadBodies == {[Resp0 EXCEPT !.form = f] : f \in {"text", "nonobj"}}

ExpiresInValues ==
    {[t |-> "missing", n |-> 0], [t |-> "badstr", n |-> 0],
     [t |-> "int", n |-> 60], [t |-> "int", n |-> 120], [t |-> "numstr", n |-> 90]}

\* Token responses; the endpoint issues a token only while can_issue
TokenResponses(can_issue) ==
    TransportFailures
    \cup ErrorResponses({401, 500}, {"invalid_client"})
    \cup BadBodies
    \cup {Resp0}                      \* a JSON object without access_token
    \cup IF can_issue
         THEN {[Resp0 EXCEPT !.access_token = "fresh", !.expires_in = e] :
                    e \in ExpiresInValues}
         ELSE {}

\* The token responses tried inside a broker call: one of each kind
FewTokenResponses(can_issue) ==
    {[Resp0 EXCEPT !.net = "Timeout"],
     [Resp0 EXCEPT !.status = 401, !.error = "invalid_client"],
     [Resp0 EXCEPT !.form = "text"]}
    \cup IF can_issue
         THEN {[Resp0 EXCEPT !.access_token = "fresh",
                             !.expires_in = [t |-> "int", n |-> 90]]}
         ELSE {}

MappingResponses ==
    TransportFailures
    \cup ErrorResponses({400, 401, 404}, {"invalid_token", "mapping_not_found", "server_error"})
    \cup BadBodies
    \cup {[Resp0 EXCEPT !.credentialId = c] : c \in {Missing, "", NonStr, "  ", " cred1 ", "cred1", "cred2"}}

ScopedResponses ==
    TransportFailures
    \cup ErrorResponses({400, 401, 403}, {"invalid_token", "permission_denied", "server_error", ""})
    \cup BadBodies
    \cup {[Resp0 EXCEPT !.access_token = a, !.has_granted = FALSE] : a \in {Missing, "sts1"}}
    \cup {[Resp0 EXCEPT !.access_token = a, !.has_granted = TRUE, !.granted = g] :
              a \in {Missing, "sts1"}, g \in {{}, {"cred1"}, {"cred1", "cred2"}}}

DiscoveryResponses ==
    TransportFailures
    \cup {[Resp0 EXCEPT !.status = 500]}
    \cup BadBodies
    \cup {[Resp0 EXCEPT !.instanceId = i] : i \in {Missing, NonStr, ""} \cup InstanceIds}

\* The answers to request req; all says whether every token response is tried
ResponsesTo(all, req, r) ==
    CASE req.to = "discovery" -> DiscoveryResponses
      [] req.to = "token"     -> IF all
                                 THEN TokenResponses(Len(r.issued) < MaxIssued)
                                 ELSE FewTokenResponses(Len(r.issued) < MaxIssued)
      [] req.to = "mapping"   -> MappingResponses
      [] req.to = "scoped"    -> ScopedResponses

\* The oracles of a call Run: every sequence of answers to the requests the call
\* sends.  Which request comes next depends on the answers before it, so the
\* oracles are built one answer at a time; no call sends more than five requests.
ExtOne(all, Run(_), p) ==
    LET res == Run(p)
    IN  IF Len(res.r.log) > Len(p)
        THEN {Append(p, x) : x \in ResponsesTo(all, res.r.log[Len(p) + 1], res.r)}
        ELSE {p}

Ext(all, Run(_), P) == UNION {ExtOne(all, Run, p) : p \in P}

Oracles(all, Run(_)) ==
    Ext(all, Run, Ext(all, Run, Ext(all, Run, Ext(all, Run, Ext(all, Run, {<<>>})))))

----------------------------------------------------------------------------
(* The state machine *)

NoArgs ==
    [variable_name |-> None, credential_ids |-> [list |-> FALSE, items |-> <<>>],
     instance_id |-> None, audience |-> None, force_refresh |-> FALSE,
     fetch_raw_secret |-> FALSE, enable_env_fallback |-> FALSE,
     exchange_configured |-> FALSE, env_value |-> None, client |-> 1]

NoCall == [op |-> "none", args |-> NoArgs, oracle |-> <<>>, log |-> <<>>, out |-> Return(None)]

\* The client's fields at the start of a call
R0 ==
    [disc |-> discovered, toks |-> access_tokens, exps |-> token_expiries,
     issued |-> issued, clock |-> now, log |-> <<>>]

\* The fields of a client that __init__ leaves when discovery found no id
NoPeer == [disc |-> None, toks |-> <<>>, exps |-> <<>>]

\* A thread's position in a call and its local variables
IdleThread ==
    [pc |-> "idle", clock |-> 0, cached_token |-> None, cached_expiry |-> 0,
     access_token |-> None, expiry_timestamp |-> 0, agent_token |-> None]

\* No thread is inside a call.  guard is the mutual exclusion the threads
\* use and holder the thread that holds it (0: none); expiry_of is history:
\* for a cache key, the token whose response or whose rejection wrote the
\* stored expiry.
NoThreads ==
    [guard |-> "none", holder |-> 0, t |-> [i \in {1, 2} |-> IdleThread],
     expiry_of |-> <<>>]

\* __init__: empty caches; with auto_discover_instance_id the constructor has
\* attempted discovery, which found an id or found none.
Init ==
    /\ now = StartTime
    /\ discovered \in {None} \cup InstanceIds
    /\ access_tokens = <<>>
    /\ token_expiries = <<>>
    /\ issued = <<>>
    /\ last = NoCall
    /\ peer = NoPeer
    /\ threads = NoThreads

\* One whole call: the fields it leaves, and the record of it
Commit(op, args, o, res) ==
    /\ discovered' = res.r.disc
    /\ access_tokens' = res.r.toks
    /\ token_expiries' = res.r.exps
    /\ issued' = res.r.issued
    /\ last' = [op |-> op, args |-> args, oracle |-> o, log |-> res.r.log, out |-> res.out]
    /\ UNCHANGED <<now, peer, threads>>

\* The client is used by one thread: a call starts when the call before it
\* has returned.
Call(all, op, args, Run(_)) ==
    /\ last.op = "none"
    /\ \E o \in Oracles(all, Run) : Commit(op, args, o, Run(o))

\* The caller takes the outcome of the call
Returned ==
    /\ last.op # "none"
    /\ last' = NoCall
    /\ UNCHANGED <<now, discovered, access_tokens, token_expiries, issued, peer, threads>>

Tick ==
    /\ last.op = "none"
    /\ now + TickStep <= StartTime + MaxTicks * TickStep
    /\ now' = now + TickStep
    /\ UNCHANGED last
    /\ UNCHANGED <<discovered, access_tokens, token_expiries, issued, peer, threads>>

VariableNames == {None, "", "  ", " v1 "}
InstanceIdParams == {None} \cup InstanceIds
CredentialIdLists ==
    {[list |-> FALSE, items |-> <<>>], [list |-> TRUE, items |-> <<>>],
     [list |-> TRUE, items |-> <<"  ">>], [list |-> TRUE, items |-> <<"cred1">>],
     [list |-> TRUE, items |-> <<" cred1 ", "  ", "cred2">>]}

DiscoverLocalInstanceId ==
    \E f \in BOOLEAN :
        Call(FALSE, "discover_local_instance_id", [NoArgs EXCEPT !.force_refresh = f],
             LAMBDA o : discover_local_instance_id(R0, f, o))

GetValidAgentToken ==
    \E a \in Audiences, i \in InstanceIds, f \in BOOLEAN :
        Call(FALSE, "_get_valid_agent_token",
             [NoArgs EXCEPT !.audience = a, !.instance_id = i, !.force_refresh = f],
             LAMBDA o : get_valid_agent_token(R0, a, i, f, o))

GetCredentialIdForVariable ==
    \E v \in VariableNames, i \in InstanceIdParams :
        Call(FALSE, "get_credential_id_for_variable",
             [NoArgs EXCEPT !.variable_name = v, !.instance_id = i],
             LAMBDA o : get_credential_id_for_variable(R0, v, i, o))

GetScopedCredentialsById ==
    \E c \in CredentialIdLists, i \in InstanceIdParams :
        Call(FALSE, "get_scoped_credentials_by_id",
             [NoArgs EXCEPT !.credential_ids = c, !.instance_id = i],
             LAMBDA o : get_scoped_credentials_by_id(R0, c, i, o))

GetScopedCredentialsForVariable ==
    \E v \in VariableNames, i \in InstanceIdParams :
        Call(FALSE, "get_scoped_credentials_for_variable",
             [NoArgs EXCEPT !.variable_name = v, !.instance_id = i],
             LAMBDA o : get_scoped_credentials_for_variable(R0, v, i, o))

Next ==
    \/ Tick
    \/ Returned
    \/ DiscoverLocalInstanceId
    \/ GetValidAgentToken
    \/ GetCredentialIdForVariable
    \/ GetScopedCredentialsById
    \/ GetScopedCredentialsForVariable

Spec == Init /\ [][Next]_vars

----------------------------------------------------------------------------
(* The authenticator alone: _get_valid_agent_token called for a key, with    *)
(* every response of the token endpoint.                                    *)

AuthInstanceIds == {None, "u1"}

GetValidAgentTokenAll ==
    \E a \in Audiences, i \in AuthInstanceIds, f \in BOOLEAN :
        Call(TRUE, "_get_valid_agent_token",
             [NoArgs EXCEPT !.audience = a, !.instance_id = i, !.force_refresh = f],
             LAMBDA o : get_valid_agent_token(R0, a, i, f, o))

InitAuth == Init /\ discovered = None

NextAuth ==
    \/ Tick
    \/ Returned
    \/ GetValidAgentTokenAll

SpecAuth == InitAuth /\ [][NextAuth]_vars

----------------------------------------------------------------------------
(* The context resolver alone: discover_local_instance_id, called a second  *)
(* time right after it returned, and _get_instance_id_or_raise.             *)

\* discover_local_instance_id is called again right after it returned; last
\* holds the first call in the state before and the second in the state after
DiscoverAgain ==
    /\ last.op = "discover_local_instance_id"
    /\ \E f \in BOOLEAN :
          \E o \in Oracles(FALSE, LAMBDA p : discover_local_instance_id(R0, f, p)) :
              Commit("discover_local_instance_id", [NoArgs EXCEPT !.force_refresh = f], o,
                     discover_local_instance_id(R0, f, o))

\* instance_id_param: None, an empty string, or an id
ContextParams == InstanceIdParams \cup {""}

GetInstanceIdOrRaise ==
    \E i \in ContextParams :
        Call(FALSE, "_get_instance_id_or_raise", [NoArgs EXCEPT !.instance_id = i],
             LAMBDA o : get_instance_id_or_raise(R0, i, o))

\* _get_instance_id_or_raise is called right after discover_local_instance_id
\* returned
ContextAfterDiscovery ==
    /\ last.op = "discover_local_instance_id"
    /\ \E i \in {None, ""} :
          \E o \in Oracles(FALSE, LAMBDA p : get_instance_id_or_raise(R0, i, p)) :
              Commit("_get_instance_id_or_raise", [NoArgs EXCEPT !.instance_id = i], o,
                     get_instance_id_or_raise(R0, i, o))

NextDiscovery ==
    \/ Tick
    \/ Returned
    \/ DiscoverLocalInstanceId
    \/ DiscoverAgain
    \/ GetInstanceIdOrRaise
    \/ ContextAfterDiscovery

SpecDiscovery == Init /\ [][NextDiscovery]_vars

----------------------------------------------------------------------------
(* get_secret alone, with one failure and one or two successes of every     *)
(* endpoint.                                                                *)

SecretResponsesTo(req, r) ==
    CASE req.to = "discovery" ->
             {[Resp0 EXCEPT !.net = "ConnectionError"], [Resp0 EXCEPT !.instanceId = "u2"]}
      [] req.to = "token" ->
             {[Resp0 EXCEPT !.status = 401, !.error = "invalid_client"]}
             \cup IF Len(r.issued) < MaxSecretIssued
                  THEN {[Resp0 EXCEPT !.access_token = "fresh",
                                      !.expires_in = [t |-> "int", n |-> 90]]}
                  ELSE {}
      [] req.to = "mapping" ->
             {[Resp0 EXCEPT !.status = 404, !.error = "mapping_not_found"],
              [Resp0 EXCEPT !.form = "nonobj"],
              [Resp0 EXCEPT !.credentialId = "cred1"],
              [Resp0 EXCEPT !.credentialId = "cred2"]}
      [] req.to = "scoped" ->
             {[Resp0 EXCEPT !.status = 403, !.error = "permission_denied"],
              [Resp0 EXCEPT !.access_token = "sts1", !.has_granted = TRUE,
                            !.granted = {"cred1"}]}
      [] req.to = "exchange" ->
             {[Resp0 EXCEPT !.status = 403, !.error = "access_denied"],
              Resp0,
              [Resp0 EXCEPT !.secret_value = "raw1"]}

\* The oracles of a call of get_secret, which sends at most seven requests
SecretExtOne(Run(_), p) ==
    LET res == Run(p)
    IN  IF Len(res.r.log) > Len(p)
        THEN {Append(p, x) : x \in SecretResponsesTo(res.r.log[Len(p) + 1], res.r)}
        ELSE {p}

SecretExt(Run(_), P) == UNION {SecretExtOne(Run, p) : p \in P}

SecretOracles(Run(_)) ==
    SecretExt(Run, SecretExt(Run, SecretExt(Run, SecretExt(Run,
        SecretExt(Run, SecretExt(Run, SecretExt(Run, {<<>>})))))))

SecretOptions ==
    {[NoArgs EXCEPT !.variable_name = " v1 ", !.instance_id = i, !.fetch_raw_secret = f,
                    !.enable_env_fallback = b, !.exchange_configured = x, !.env_value = e] :
        i \in {None, "u1"}, f \in BOOLEAN, b \in BOOLEAN, x \in BOOLEAN,
        e \in {None, "", "env_secret_value"}}

GetSecret ==
    /\ last.op = "none"
    /\ \E a \in SecretOptions :
          \E o \in SecretOracles(LAMBDA p : get_secret(R0, a, p)) :
              Commit("get_secret", a, o, get_secret(R0, a, o))

InitSecret == Init /\ discovered = None

NextSecret ==
    \/ Tick
    \/ Returned
    \/ GetSecret

SpecSecret == InitSecret /\ [][NextSecret]_vars

----------------------------------------------------------------------------
(* Two PiperClient instances in one process.  _discovered_instance_id is    *)
(* declared in the class body, but every assignment is to                   *)
(* self._discovered_instance_id, which sets the attribute of the instance;  *)
(* the two dicts are created in __init__, one pair for each instance.       *)

PeerResponsesTo(req, r) ==
    CASE req.to = "discovery" ->
             {[Resp0 EXCEPT !.net = "ConnectionError"]}
             \cup {[Resp0 EXCEPT !.instanceId = i] : i \in InstanceIds}
      [] req.to = "token" ->
             {[Resp0 EXCEPT !.status = 401, !.error = "invalid_client"], Resp0}
             \cup IF Len(r.issued) < MaxIssued
                  THEN {[Resp0 EXCEPT !.access_token = "fresh",
                                      !.expires_in = [t |-> "int", n |-> 90]]}
                  ELSE {}
      [] req.to = "mapping" ->
             {[Resp0 EXCEPT !.status = 401, !.error = "invalid_token"],
              [Resp0 EXCEPT !.credentialId = "cred1"]}
      [] req.to = "scoped" ->
             {[Resp0 EXCEPT !.status = 403, !.error = "permission_denied"],
              [Resp0 EXCEPT !.access_token = "sts1", !.has_granted = TRUE,
                            !.granted = {"cred1"}]}

\* The oracles of a call that sends at most five requests
PeerExtOne(Run(_), p) ==
    LET res == Run(p)
    IN  IF Len(res.r.log) > Len(p)
        THEN {Append(p, x) : x \in PeerResponsesTo(res.r.log[Len(p) + 1], res.r)}
        ELSE {p}

PeerExt(Run(_), P) == UNION {PeerExtOne(Run, p) : p \in P}

PeerOracles(Run(_)) ==
    PeerExt(Run, PeerExt(Run, PeerExt(Run, PeerExt(Run, PeerExt(Run, {<<>>})))))

\* The cache fields of the first client
Own == [disc |-> discovered, toks |-> access_tokens, exps |-> token_expiries]

Clients == {1, 2}

FieldsOf(who) == IF who = 1 THEN Own ELSE peer

\* The fields of client who at the start of a call on it
RunOn(who) ==
    [disc |-> FieldsOf(who).disc, toks |-> FieldsOf(who).toks, exps |-> FieldsOf(who).exps,
     issued |-> issued, clock |-> now, log |-> <<>>]

\* (mutation: the discovered id is assigned to the class attribute)
InstanceWrite_ClassAttribute(res, other) ==
    [self  |-> [disc |-> res.r.disc, toks |-> res.r.toks, exps |-> res.r.exps],
     other |-> [other EXCEPT !.disc = res.r.disc]]

\* What a call that ends with fields res.r leaves in self and in the other
\* instance
InstanceWrite(res, other) ==
    [self  |-> [disc |-> res.r.disc, toks |-> res.r.toks, exps |-> res.r.exps],
     other |-> other]

\* One whole call on client who: w is what it leaves in the two instances
CommitFields(who, w) ==
    /\ discovered' = (IF who = 1 THEN w.self ELSE w.other).disc
    /\ access_tokens' = (IF who = 1 THEN w.self ELSE w.other).toks
    /\ token_expiries' = (IF who = 1 THEN w.self ELSE w.other).exps
    /\ peer' = (IF who = 1 THEN w.other ELSE w.self)

CommitOn(who, op, args, o, res) ==
    /\ CommitFields(who, InstanceWrite(res, FieldsOf(3 - who)))
    /\ issued' = res.r.issued
    /\ last' = [op |-> op, args |-> [args EXCEPT !.client = who], oracle |-> o,
                log |-> res.r.log, out |-> res.out]
    /\ UNCHANGED <<now, threads>>

DiscoverOn ==
    /\ last.op = "none"
    /\ \E who \in Clients, f \in BOOLEAN :
          \E o \in PeerOracles(LAMBDA p : discover_local_instance_id(RunOn(who), f, p)) :
              CommitOn(who, "discover_local_instance_id", [NoArgs EXCEPT !.force_refresh = f],
                       o, discover_local_instance_id(RunOn(who), f, o))

GetValidAgentTokenOn ==
    /\ last.op = "none"
    /\ \E who \in Clients, i \in InstanceIds, f \in BOOLEAN :
          \E o \in PeerOracles(LAMBDA p :
                     get_valid_agent_token(RunOn(who), resolve_mapping_url, i, f, p)) :
              CommitOn(who, "_get_valid_agent_token",
                       [NoArgs EXCEPT !.audience = resolve_mapping_url, !.instance_id = i,
                                      !.force_refresh = f],
                       o, get_valid_agent_token(RunOn(who), resolve_mapping_url, i, f, o))

GetCredentialIdForVariableOn ==
    /\ last.op = "none"
    /\ \E who \in Clients, i \in InstanceIdParams :
          \E o \in PeerOracles(LAMBDA p :
                     get_credential_id_for_variable(RunOn(who), " v1 ", i, p)) :
              CommitOn(who, "get_credential_id_for_variable",
                       [NoArgs EXCEPT !.variable_name = " v1 ", !.instance_id = i],
                       o, get_credential_id_for_variable(RunOn(who), " v1 ", i, o))

\* Both constructors have run
InitPeer ==
    /\ now = StartTime
    /\ discovered \in {None, "u1"}
    /\ access_tokens = <<>>
    /\ token_expiries = <<>>
    /\ issued = <<>>
    /\ last = NoCall
    /\ peer \in {[NoPeer EXCEPT !.disc = d] : d \in {None, "u2"}}
    /\ threads = NoThreads

NextPeer ==
    \/ Tick
    \/ Returned
    \/ DiscoverOn
    \/ GetValidAgentTokenOn
    \/ GetCredentialIdForVariableOn

SpecPeer == InitPeer /\ [][NextPeer]_vars

----------------------------------------------------------------------------
(* The token requests of the internal _get_valid_agent_token, called with   *)
(* and without a user context, and of the public broker operations.         *)

HintCall(op, args, Run(_)) ==
    /\ last.op = "none"
    /\ \E o \in PeerOracles(Run) : Commit(op, args, o, Run(o))

HintGetValidAgentToken ==
    \E a \in Audiences, i \in ContextParams, f \in BOOLEAN :
        HintCall("_get_valid_agent_token",
                 [NoArgs EXCEPT !.audience = a, !.instance_id = i, !.force_refresh = f],
                 LAMBDA o : get_valid_agent_token(R0, a, i, f, o))

HintGetCredentialIdForVariable ==
    \E i \in ContextParams :
        HintCall("get_credential_id_for_variable",
                 [NoArgs EXCEPT !.variable_name = " v1 ", !.instance_id = i],
                 LAMBDA o : get_credential_id_for_variable(R0, " v1 ", i, o))

HintGetScopedCredentialsById ==
    \E i \in ContextParams :
        HintCall("get_scoped_credentials_by_id",
                 [NoArgs EXCEPT !.credential_ids = [list |-> TRUE, items |-> <<"cred1">>],
                                !.instance_id = i],
                 LAMBDA o : get_scoped_credentials_by_id(
                                R0, [list |-> TRUE, items |-> <<"cred1">>], i, o))

HintGetScopedCredentialsForVariable ==
    \E i \in ContextParams :
        HintCall("get_scoped_credentials_for_variable",
                 [NoArgs EXCEPT !.variable_name = " v1 ", !.instance_id = i],
                 LAMBDA o : get_scoped_credentials_for_variable(R0, " v1 ", i, o))

NextHint ==
    \/ Tick
    \/ Returned
    \/ HintGetValidAgentToken
    \/ HintGetCredentialIdForVariable
    \/ HintGetScopedCredentialsById
    \/ HintGetScopedCredentialsForVariable

SpecHint == InitAuth /\ [][NextHint]_vars

----------------------------------------------------------------------------
(* Two threads call get_credential_id_for_variable(" v1 ", "u1") on one     *)
(* client.  A thread takes one step for every read or write of the token    *)
(* cache and one for every network exchange; the steps of the two threads   *)
(* interleave.  client.py has no lock.  guard says what the callers add:    *)
(*   "none"  nothing;                                                       *)
(*   "rmw"   a lock around the read-modify-write of                         *)
(*           _get_valid_agent_token and around the invalidating write;      *)
(*   "call"  a lock around the whole call.                                  *)

Guards == {"none", "rmw", "call"}

ThreadIds == {1, 2}

ThreadKey == CacheKey(resolve_mapping_url, "u1")

\* The client's fields as a thread finds them at one of its steps
ThreadRun == [R0 EXCEPT !.log = <<>>]

\* Thread i moves to rec; the guard is released if release
ThreadStep(i, rec, release) ==
    [threads EXCEPT !.t[i] = rec,
                    !.holder = IF release /\ @ = i THEN 0 ELSE @]

\* Thread i may enter a guarded section
MayEnter(i) == threads.guard = "none" \/ threads.holder \in {0, i}

\* The call starts: now = time.time()
ThreadCall ==
    \E i \in ThreadIds :
        /\ threads.t[i].pc = "idle"
        /\ MayEnter(i)
        /\ threads' = [threads EXCEPT
                          !.t[i] = [IdleThread EXCEPT !.pc = "read_token", !.clock = now],
                          !.holder = IF threads.guard = "none" THEN 0 ELSE i]
        /\ UNCHANGED <<now, discovered, access_tokens, token_expiries, issued, last, peer>>

\* cached_token = self._access_tokens.get(cache_key)
ThreadReadToken ==
    \E i \in ThreadIds :
        /\ threads.t[i].pc = "read_token"
        /\ threads' = ThreadStep(i, [threads.t[i] EXCEPT
                                        !.pc = "read_expiry",
                                        !.cached_token = Get(access_tokens, ThreadKey, None)],
                                 FALSE)
        /\ UNCHANGED <<now, discovered, access_tokens, token_expiries, issued, last, peer>>

\* cached_expiry = self._token_expiries.get(cache_key, 0), and the test of
\* the cached token
ThreadReadExpiry ==
    \E i \in ThreadIds :
        LET cached_expiry == Get(token_expiries, ThreadKey, 0)
            me == threads.t[i]
        IN  /\ me.pc = "read_expiry"
            /\ threads' =
                  IF CacheValid(FALSE, me.cached_token, cached_expiry, me.clock)
                  THEN ThreadStep(i, [me EXCEPT !.pc = "post", !.cached_expiry = cached_expiry,
                                                !.agent_token = me.cached_token],
                                  threads.guard = "rmw")
                  ELSE ThreadStep(i, [me EXCEPT !.pc = "fetch",
                                                !.cached_expiry = cached_expiry], FALSE)
            /\ UNCHANGED <<now, discovered, access_tokens, token_expiries, issued, last, peer>>

\* access_token, expiry_timestamp = self._fetch_agent_token(...): the token
\* endpoint answers x; a failure ends the call
ThreadFetch ==
    \E i \in ThreadIds :
        \E x \in PeerResponsesTo([to |-> "token"], ThreadRun) :
            LET f == fetch_agent_token(ThreadRun, resolve_mapping_url, "u1", <<x>>)
                me == threads.t[i]
            IN  /\ me.pc = "fetch"
                /\ issued' = f.r.issued
                /\ threads' =
                      IF f.out.kind = "raise"
                      THEN ThreadStep(i, IdleThread, TRUE)
                      ELSE ThreadStep(i, [me EXCEPT
                                            !.pc = "store_token",
                                            !.access_token = f.out.value.access_token,
                                            !.expiry_timestamp = f.out.value.expiry_timestamp],
                                      FALSE)
                /\ UNCHANGED <<now, discovered, access_tokens, token_expiries, last, peer>>

\* self._access_tokens[cache_key] = access_token
ThreadStoreToken ==
    \E i \in ThreadIds :
        /\ threads.t[i].pc = "store_token"
        /\ access_tokens' = Put(access_tokens, ThreadKey, threads.t[i].access_token)
        /\ threads' = ThreadStep(i, [threads.t[i] EXCEPT !.pc = "store_expiry"], FALSE)
        /\ UNCHANGED <<now, discovered, token_expiries, issued, last, peer>>

\* (mutation: the expiry of a fetched token is not stored)
WriteExpiry_Skip(exps, key, expiry_timestamp) == exps

\* self._token_expiries[cache_key] = expiry_timestamp
WriteExpiry(exps, key, expiry_timestamp) == Put(exps, key, expiry_timestamp)

\* ... and return access_token
ThreadStoreExpiry ==
    \E i \in ThreadIds :
        LET me == threads.t[i]
            exps == WriteExpiry(token_expiries, ThreadKey, me.expiry_timestamp)
            th == ThreadStep(i, [me EXCEPT !.pc = "post", !.agent_token = me.access_token],
                             threads.guard = "rmw")
        IN  /\ me.pc = "store_expiry"
            /\ token_expiries' = exps
            /\ threads' = IF exps = token_expiries THEN th
                          ELSE [th EXCEPT !.expiry_of = Put(@, ThreadKey, me.access_token)]
            /\ UNCHANGED <<now, discovered, access_tokens, issued, last, peer>>

\* The POST to the mapping endpoint with the thread's token is answered by
\* x; on 401 the expiry of the key is zeroed; the call ends
ThreadRespond ==
    \E i \in ThreadIds :
        \E x \in PeerResponsesTo([to |-> "mapping"], ThreadRun) :
            LET res == resolve_response([r |-> ThreadRun, resp |-> x], "v1", "u1")
                me == threads.t[i]
                th == ThreadStep(i, IdleThread, TRUE)
            IN  /\ me.pc = "post"
                /\ res.r.exps # token_expiries => MayEnter(i)
                /\ token_expiries' = res.r.exps
                /\ threads' = IF res.r.exps = token_expiries THEN th
                              ELSE [th EXCEPT !.expiry_of = Put(@, ThreadKey, me.agent_token)]
                /\ UNCHANGED <<now, discovered, access_tokens, issued, last, peer>>

InitThreads ==
    /\ now = StartTime
    /\ discovered = None
    /\ access_tokens = <<>>
    /\ token_expiries = <<>>
    /\ issued = <<>>
    /\ last = NoCall
    /\ peer = NoPeer
    /\ threads \in {[NoThreads EXCEPT !.guard = g] : g \in Guards}

NextThreads ==
    \/ Tick
    \/ ThreadCall
    \/ ThreadReadToken
    \/ ThreadReadExpiry
    \/ ThreadFetch
    \/ ThreadStoreToken
    \/ ThreadStoreExpiry
    \/ ThreadRespond

SpecThreads == InitThreads /\ [][NextThreads]_vars

----------------------------------------------------------------------------
(* Properties *)

DirectCall == "_get_valid_agent_token"
AllInstanceIds == {None} \cup InstanceIds
Keys == Audiences \X AllInstanceIds

\* A call of _get_valid_agent_token(a, i, force_refresh = f) is made in this step
CallsToken(a, i, f) ==
    /\ last.op = "none"
    /\ last'.op = DirectCall
    /\ last'.args.audience = a
    /\ last'.args.instance_id = i
    /\ last'.args.force_refresh = f

\* C1: a call of _get_valid_agent_token(a, i) without force_refresh, made while
\* the cache holds a token for (a, i) whose expiry is greater than now + 60,
\* sends no request, returns the cached token and leaves the cache as it is.
C1_CachedTokenReused ==
    [][\A a \in Audiences, i \in AllInstanceIds :
          ( /\ CallsToken(a, i, FALSE)
            /\ <<a, i>> \in DOMAIN access_tokens
            /\ <<a, i>> \in DOMAIN token_expiries
            /\ token_expiries[<<a, i>>] > now + 60 )
          => /\ last'.log = <<>>
             /\ last'.out = Return(access_tokens[<<a, i>>])
             /\ UNCHANGED <<access_tokens, token_expiries>>]_vars

\* C1 witness: after a Tick, a call is served from the cache
C1_Witness ==
    /\ last.op = DirectCall
    /\ ~last.args.force_refresh
    /\ last.log = <<>>
    /\ last.out.kind = "return"
    /\ now > StartTime

\* C4: a call of _get_valid_agent_token(a, i) made while the cached expiry of
\* (a, i) is not greater than now + 60 (or there is none) sends exactly one token
\* request; when it succeeds, the entry holds the token of that response with
\* expiry = time of the request + expires_in, and that token is returned.
C4_ExpiredTokenRefetched ==
    [][\A a \in Audiences, i \in AllInstanceIds, f \in BOOLEAN :
          ( /\ CallsToken(a, i, f)
            /\ Get(token_expiries, <<a, i>>, 0) <= now + 60 )
          => /\ Len(last'.log) = 1
             /\ last'.log[1].to = "token"
             /\ last'.out.kind = "return" =>
                   LET e == last'.oracle[1].expires_in
                       lifetime == IF e.t \in {"int", "numstr"} THEN e.n ELSE 0
                   IN  /\ Len(issued') = Len(issued) + 1
                       /\ last'.out.value = Token(Len(issued'))
                       /\ access_tokens'[<<a, i>>] = last'.out.value
                       /\ token_expiries'[<<a, i>>] = now + lifetime]_vars

\* C4 witness: the second token of a key is fetched by a call without
\* force_refresh: the first one had expired
C4_Witness ==
    /\ last.op = DirectCall
    /\ ~last.args.force_refresh
    /\ last.out.kind = "return"
    /\ Len(last.log) = 1
    /\ Len(issued) = 2
    /\ issued[1] = issued[2]
    /\ now > StartTime

----------------------------------------------------------------------------
ResolveCall  == "get_credential_id_for_variable"
ScopedCall   == "get_scoped_credentials_by_id"
VariableCall == "get_scoped_credentials_for_variable"
BrokerCalls  == {ResolveCall, ScopedCall}

\* Request j of call c went to a bearer-authenticated broker endpoint
ToEndpoint(c, j) == c.log[j].to \in {"mapping", "scoped"}

\* ... and the endpoint answered it with an HTTP response of status 4xx/5xx
EndpointError(c, j) ==
    /\ ToEndpoint(c, j)
    /\ c.oracle[j].net = "ok"
    /\ 400 <= c.oracle[j].status
    /\ c.oracle[j].status < 600

Endpoint401(c, j) == EndpointError(c, j) /\ c.oracle[j].status = 401

\* Token tok was issued in answer to a token request for audience a and context i
IssuedFor(tok, a, i) ==
    \E n \in 1..Len(issued) :
        /\ tok = Token(n)
        /\ issued[n].audience = a
        /\ issued[n].hint = i

\* C2: every cached token, every token _get_valid_agent_token returns and every
\* bearer token sent to a broker endpoint was issued in answer to a token request
\* carrying the audience and the user context of the key it is stored under,
\* returned for, or sent for.
C2_TokenBoundToKey ==
    /\ \A k \in DOMAIN access_tokens : IssuedFor(access_tokens[k], k[1], k[2])
    /\ (last.op = DirectCall /\ last.out.kind = "return")
          => IssuedFor(last.out.value, last.args.audience, last.args.instance_id)
    /\ \A j \in 1..Len(last.log) :
          ToEndpoint(last, j)
             => IssuedFor(last.log[j].bearer, last.log[j].audience, last.log[j].hint)

\* C2 witness: a token is served from the cache for one user context while the
\* cache holds a token of the same audience for another user context, after an
\* invalidation
C2_Witness ==
    /\ last.op = DirectCall
    /\ last.log = <<>>
    /\ last.out.kind = "return"
    /\ \E k \in DOMAIN access_tokens :
          /\ k[1] = last.args.audience
          /\ k[2] # last.args.instance_id
          /\ token_expiries[k] = 0

\* C3: a 401 response from the mapping-resolution endpoint or from the
\* scoped-credentials endpoint sets to zero the cached expiry of the entry keyed
\* (the endpoint's audience, the call's user context), and leaves every other
\* entry of the cache as it was.
C3_Invalidates401 ==
    [][\A j \in 1..Len(last'.log) :
          (last.op = "none" /\ last'.op \in BrokerCalls /\ Endpoint401(last', j))
          => LET key == <<last'.log[j].audience, last'.log[j].hint>>
             IN  /\ key \in DOMAIN token_expiries'
                 /\ token_expiries'[key] = 0
                 /\ \A k \in Keys \ {key} :
                       /\ (k \in DOMAIN access_tokens') = (k \in DOMAIN access_tokens)
                       /\ (k \in DOMAIN token_expiries') = (k \in DOMAIN token_expiries)
                       /\ Get(access_tokens', k, None) = Get(access_tokens, k, None)
                       /\ Get(token_expiries', k, 0) = Get(token_expiries, k, 0)]_vars

\* C5: get_credential_id_for_variable with an empty or whitespace-only variable
\* name raises the invalid-argument error (ValueError) and sends no request.
C5_BlankNameRejected ==
    (last.op = ResolveCall /\ last.args.variable_name \in {"", "  "})
       => /\ last.out.kind = "raise"
          /\ last.out.exc.cls = "ValueError"
          /\ last.log = <<>>

\* C6: when the token endpoint answers with a 4xx/5xx status, the caller of
\* _get_valid_agent_token gets a PiperAuthError whose status_code is that status
\* and whose error_code is the error code of the body, or http_<status> when the
\* body has none.
C6_TokenErrorKeepsStatus ==
    \A j \in 1..Len(last.log) :
       ( /\ last.op = DirectCall
         /\ last.log[j].to = "token"
         /\ last.oracle[j].net = "ok"
         /\ 400 <= last.oracle[j].status
         /\ last.oracle[j].status < 600 )
       => /\ last.out.kind = "raise"
          /\ last.out.exc.cls = "PiperAuthError"
          /\ last.out.exc.status_code = last.oracle[j].status
          /\ last.out.exc.error_code =
                IF last.oracle[j].form = "obj" /\ last.oracle[j].error # Missing
                THEN last.oracle[j].error
                ELSE "http_" \o ToString(last.oracle[j].status)

\* C7: for every 4xx/5xx response of the mapping-resolution endpoint and of the
\* scoped-credentials endpoint, the error raised carries the HTTP status received
\* and the error code the broker gave.
C7_EndpointErrorKeepsStatus ==
    \A j \in 1..Len(last.log) :
       (last.op \in BrokerCalls /\ EndpointError(last, j))
       => /\ last.out.kind = "raise"
          /\ last.out.exc.status_code = last.oracle[j].status
          /\ (last.oracle[j].form = "obj" /\ last.oracle[j].error # Missing)
                => last.out.exc.error_code = last.oracle[j].error

\* C8: a 404 response, or a response with the broker code mapping_not_found, from
\* the mapping-resolution endpoint yields a PiperGrantNeededError whose message
\* holds the grant-management URL
\* <base>?scope=manage_grants&client=<client id>&variable=<variable name>.
C8_GrantNeededWithUrl ==
    \A j \in 1..Len(last.log) :
       ( /\ last.op = ResolveCall
         /\ EndpointError(last, j)
         /\ \/ last.oracle[j].status = 404
            \/ last.oracle[j].form = "obj" /\ last.oracle[j].error = "mapping_not_found" )
       => LET url == "https://ui/grants?scope=manage_grants&client=" \o client_id
                     \o "&variable=" \o Strip(last.args.variable_name)
          IN  /\ last.out.kind = "raise"
              /\ last.out.exc.cls = "PiperGrantNeededError"
              /\ url \in last.out.exc.parts

\* C9: one call of get_credential_id_for_variable or get_scoped_credentials_by_id
\* sends at most one token request and at most one request to the broker
\* endpoint; a 401 from the endpoint is the last thing the call receives, and the
\* call raises.
C9_NoRetry ==
    last.op \in BrokerCalls
       => /\ Cardinality({j \in 1..Len(last.log) : last.log[j].to = "token"}) <= 1
          /\ Cardinality({j \in 1..Len(last.log) : ToEndpoint(last, j)}) <= 1
          /\ \A j \in 1..Len(last.log) :
                Endpoint401(last, j) => j = Len(last.log) /\ last.out.kind = "raise"

\* C9 witness: a call fetched a token, sent it, got 401 and raised
C9_Witness ==
    /\ last.op \in BrokerCalls
    /\ Len(last.log) = 2
    /\ last.log[1].to = "token"
    /\ Endpoint401(last, 2)
    /\ last.out.kind = "raise"
    /\ token_expiries[<<last.log[2].audience, last.log[2].hint>>] = 0

\* C10: every public broker operation ends with a return or with ValueError,
\* PiperLinkNeededError, PiperAuthError or PiperError; no exception of the
\* transport (timeout, connection failure, malformed JSON) reaches the caller.
C10_OnlyLibraryErrors ==
    (last.op \in BrokerCalls \cup {VariableCall} /\ last.out.kind = "raise")
       => last.out.exc.cls \in {"ValueError", "PiperLinkNeededError", "PiperAuthError",
                                "PiperError"}

----------------------------------------------------------------------------
DiscoverCall == "discover_local_instance_id"
ContextCall  == "_get_instance_id_or_raise"

\* The answer x of the discovery endpoint holds a usable instanceId
FoundId(x) ==
    /\ x.net = "ok"
    /\ x.status < 400
    /\ x.form = "obj"
    /\ x.instanceId \notin {Missing, NonStr, ""}

\* C11: discover_local_instance_id never raises; when the discovery query fails
\* (transport failure, HTTP error status, a body that is no JSON or no JSON
\* object, an instanceId that is missing or not a string) it returns None.
C11_DiscoveryNeverRaises ==
    last.op = DiscoverCall
       => /\ last.out.kind = "return"
          /\ (Len(last.log) = 1 /\ ~FoundId(last.oracle[1])) => last.out.value = None

\* C11 witness: the discovery endpoint answered with a JSON body that is no
\* object, and the call returned None
C11_Witness ==
    /\ last.op = DiscoverCall
    /\ Len(last.log) = 1
    /\ last.oracle[1].net = "ok"
    /\ last.oracle[1].form = "nonobj"
    /\ last.out = Return(None)

\* C12: after a completed discovery attempt, whatever its outcome, a call of
\* discover_local_instance_id with force_refresh = False returns the outcome of
\* that attempt without a discovery request; a call with force_refresh = True
\* sends one.
C12_DiscoveryOutcomeCached ==
    [][(last.op = DiscoverCall /\ last'.op = DiscoverCall)
          => IF last'.args.force_refresh
             THEN Len(last'.log) = 1
             ELSE last'.log = <<>> /\ last'.out = last.out]_vars

\* C13: _get_instance_id_or_raise returns the explicit id when one is given
\* (a non-empty string), with no discovery request and the discovered id
\* unchanged; without one it returns the cached id when there is one, else the
\* result of one discovery attempt; it raises PiperLinkNeededError exactly when
\* no id is given, none is cached and the discovery attempt finds none.
C13_ContextResolution ==
    [][(last.op = "none" /\ last'.op = ContextCall)
          => LET i == last'.args.instance_id
             IN  IF i \notin {None, ""}
                 THEN /\ last'.log = <<>>
                      /\ last'.out = Return(i)
                      /\ discovered' = discovered
                 ELSE IF discovered # None
                 THEN /\ last'.log = <<>>
                      /\ last'.out = Return(discovered)
                      /\ discovered' = discovered
                 ELSE /\ Len(last'.log) = 1
                      /\ last'.log[1].to = "discovery"
                      /\ IF FoundId(last'.oracle[1])
                         THEN last'.out = Return(last'.oracle[1].instanceId)
                         ELSE /\ last'.out.kind = "raise"
                              /\ last'.out.exc.cls = "PiperLinkNeededError"]_vars

\* C13 witness: an explicit id was given while another id was cached, and the
\* explicit one was returned
C13_Witness ==
    /\ last.op = ContextCall
    /\ last.args.instance_id # None
    /\ discovered # None
    /\ discovered # last.args.instance_id
    /\ last.out = Return(last.args.instance_id)

----------------------------------------------------------------------------
\* The answer x is an HTTP response without an error status
Success(x) == x.net = "ok" /\ x.status < 400

\* The body of x gives an error code
HasCode(x) == x.form = "obj" /\ x.error \notin {Missing, ""}

\* C14: on a 401 from the scoped-credentials endpoint,
\* get_scoped_credentials_by_id zeroes the cached expiry of (scoped audience,
\* user context) and raises PiperAuthError with status 401, whose error code is
\* the code of the body, or "invalid_token" when the body gives none.
C14_Scoped401 ==
    \A j \in 1..Len(last.log) :
       (last.op = ScopedCall /\ last.log[j].to = "scoped" /\ Endpoint401(last, j))
       => /\ Get(token_expiries, <<get_scoped_url, last.log[j].hint>>, 1) = 0
          /\ last.out.kind = "raise"
          /\ last.out.exc.cls = "PiperAuthError"
          /\ last.out.exc.status_code = 401
          /\ last.out.exc.error_code =
                IF HasCode(last.oracle[j]) THEN last.oracle[j].error ELSE "invalid_token"

\* The trimmed non-blank entries of a list of identifiers, in their order
Trimmed(items) ==
    SelectSeq([k \in DOMAIN items |-> Strip(items[k])], LAMBDA x : x # "")

\* C15: get_scoped_credentials_by_id raises ValueError when the list is empty,
\* is no list, or holds only blank entries, and then sends no token request and
\* no scoped-credentials request; otherwise the request carries the trimmed
\* non-blank identifiers in their order.
C15_IdentifierListValidated ==
    last.op = ScopedCall
       => LET ids == last.args.credential_ids
          IN  IF ~ids.list \/ Trimmed(ids.items) = <<>>
              THEN /\ last.out.kind = "raise"
                   /\ last.out.exc.cls = "ValueError"
                   /\ \A j \in 1..Len(last.log) : last.log[j].to \notin {"token", "scoped"}
              ELSE \A j \in 1..Len(last.log) :
                      last.log[j].to = "scoped" => last.log[j].payload = Trimmed(ids.items)

\* The answer x of the scoped-credentials endpoint holds both required fields
ScopedComplete(x) == x.form = "obj" /\ x.access_token # Missing /\ x.has_granted

\* The answer x of the mapping endpoint holds a non-empty string credentialId
MappingComplete(x) == x.form = "obj" /\ x.credentialId \notin {Missing, NonStr, ""}

\* C16: a success response of the scoped-credentials endpoint that holds an
\* access token and a granted list is returned as it is, whatever the granted
\* set, by get_scoped_credentials_by_id and by
\* get_scoped_credentials_for_variable.
C16_PartialGrantReturned ==
    \A j \in 1..Len(last.log) :
       ( /\ last.op \in {ScopedCall, VariableCall}
         /\ last.log[j].to = "scoped"
         /\ Success(last.oracle[j])
         /\ ScopedComplete(last.oracle[j]) )
       => last.out = Return([access_token |-> last.oracle[j].access_token,
                             expires_in |-> last.oracle[j].expires_in,
                             granted_credential_ids |-> last.oracle[j].granted])

\* C16 witness: get_scoped_credentials_for_variable asked for one identifier,
\* the endpoint granted none, and the response was returned
C16_Witness ==
    /\ last.op = VariableCall
    /\ last.out.kind = "return"
    /\ last.out.value.granted_credential_ids = {}
    /\ Len(last.log[Len(last.log)].payload) = 1

\* C17: a success response without the required fields is never returned: the
\* mapping call raises PiperAuthError unless the response holds a non-empty
\* string credentialId, the scoped call unless it holds access_token and
\* granted_credential_ids.
C17_MalformedSuccessIsAuthError ==
    \A j \in 1..Len(last.log) :
       ( /\ last.op \in BrokerCalls
         /\ ToEndpoint(last, j)
         /\ Success(last.oracle[j])
         /\ ~IF last.log[j].to = "mapping" THEN MappingComplete(last.oracle[j])
                                            ELSE ScopedComplete(last.oracle[j]) )
       => /\ last.out.kind = "raise"
          /\ last.out.exc.cls = "PiperAuthError"

\* In call c, request j went to the scoped-credentials endpoint after the
\* mapping endpoint had returned a credential id, which Id turns into the
\* identifier list sent
ScopedFollowsMapping(c, j, Id(_)) ==
    \E k \in 1..(j - 1) :
        /\ c.log[k].to = "mapping"
        /\ Success(c.oracle[k])
        /\ MappingComplete(c.oracle[k])
        /\ c.log[j].payload = <<Id(c.oracle[k].credentialId)>>
        /\ c.log[j].hint = c.log[k].hint

\* C18 (as stated): in get_scoped_credentials_for_variable the scoped-credentials
\* endpoint is called only after the mapping endpoint returned a credential id
\* in the same call, with exactly that id, and never when context resolution or
\* mapping resolution failed.
C18_ScopedAfterMapping_Exact ==
    \A j \in 1..Len(last.log) :
       (last.op = VariableCall /\ last.log[j].to = "scoped")
       => ScopedFollowsMapping(last, j, LAMBDA c : c)

\* C18 (amended): ... with that id trimmed of surrounding whitespace as its one
\* identifier; a failed context or mapping resolution ends the call with no
\* request to the scoped-credentials endpoint.
C18_ScopedAfterMapping ==
    /\ \A j \in 1..Len(last.log) :
          (last.op = VariableCall /\ last.log[j].to = "scoped")
          => ScopedFollowsMapping(last, j, Strip)
    /\ \A k \in 1..Len(last.log) :
          ( /\ last.op = VariableCall
            /\ last.log[k].to \in {"discovery", "mapping"}
            /\ ~IF last.log[k].to = "mapping"
                THEN Success(last.oracle[k]) /\ MappingComplete(last.oracle[k])
                ELSE FoundId(last.oracle[k]) )
          => /\ k = Len(last.log)
             /\ last.out.kind = "raise"

\* C18 witness: the mapping endpoint returned an id with surrounding
\* whitespace and the scoped-credentials endpoint was asked for the trimmed id
C18_Witness ==
    /\ last.op = VariableCall
    /\ Len(last.log) = 4
    /\ last.log[2].to = "mapping"
    /\ last.oracle[2].credentialId = " cred1 "
    /\ last.log[4].to = "scoped"
    /\ last.log[4].payload = <<"cred1">>

SecretStep == last.op = "none" /\ last'.op = "get_secret"

\* What the broker path alone does in a call of get_secret
BrokerPath(a, o) == get_secret(R0, [a EXCEPT !.enable_env_fallback = FALSE], o).out

\* C19: with fallback enabled, when the broker path fails with
\* PiperLinkNeededError or a PiperAuthError (the grant-needed and exchange
\* errors are such), get_secret returns a result tagged environment_variable
\* carrying the variable's value if the environment variable is set and
\* non-empty, and raises the broker's error if it is not set.
C19_FallbackOnBrokerFailure ==
    [][(SecretStep /\ last'.args.enable_env_fallback) =>
        LET a == last'.args
            b == BrokerPath(a, last'.oracle)
        IN  (b.kind = "raise" /\ FallbackEligible(b.exc)) =>
                /\ Truthy(a.env_value) =>
                       /\ last'.out.kind = "return"
                       /\ last'.out.value.source = "environment_variable"
                       /\ last'.out.value.value = a.env_value
                /\ a.env_value = None => last'.out = b]_vars

\* A mapping answered 404 and the environment variable's value was returned
C19_Witness ==
    /\ last.op = "get_secret"
    /\ last.args.enable_env_fallback
    /\ Len(last.log) > 0
    /\ last.log[Len(last.log)].to = "mapping"
    /\ last.out.kind = "return"
    /\ last.out.value.source = "environment_variable"
    /\ last.out.value.value = "env_secret_value"

\* C20: get_secret with fetch_raw_secret and no exchange endpoint raises
\* PiperConfigError when context resolution, mapping resolution and the
\* scoped exchange all succeed, without sending an exchange request, and
\* whatever the fallback settings and the environment are.
C20_UnconfiguredExchangeIsConfigError ==
    [][(/\ SecretStep
        /\ last'.args.fetch_raw_secret
        /\ ~last'.args.exchange_configured
        /\ get_scoped_credentials_for_variable(
               R0, last'.args.variable_name, last'.args.instance_id,
               last'.oracle).out.kind = "return") =>
        /\ last'.out.kind = "raise"
        /\ last'.out.exc.cls = "PiperConfigError"
        /\ \A j \in 1..Len(last'.log) : last'.log[j].to # "exchange"]_vars

\* The configuration error was raised after a successful scoped exchange,
\* with fallback enabled and the environment variable set
C20_Witness ==
    /\ last.op = "get_secret"
    /\ last.args.fetch_raw_secret
    /\ ~last.args.exchange_configured
    /\ last.args.enable_env_fallback
    /\ last.args.env_value = "env_secret_value"
    /\ Len(last.log) > 0
    /\ last.log[Len(last.log)].to = "scoped"
    /\ last.out.kind = "raise"
    /\ last.out.exc.cls = "PiperConfigError"

\* The credential id the mapping endpoint gave in call c, and the user
\* context of that request
ResolvedCredential(c) ==
    LET k == CHOOSE k \in 1..Len(c.log) : c.log[k].to = "mapping"
    IN  [id |-> c.oracle[k].credentialId, context |-> c.log[k].hint]

\* The user context a call with explicit id i uses, from the client's fields
\* and the answer to the discovery request, if one was sent
ContextUsed(c, cached) ==
    IF Truthy(c.args.instance_id) THEN c.args.instance_id
    ELSE IF Truthy(cached) THEN cached
    ELSE c.oracle[1].instanceId

\* C21: when every step of the broker path succeeds, get_secret without
\* fetch_raw_secret returns the STS access token tagged piper_sts; with
\* fetch_raw_secret (and an exchange endpoint) it returns the secret value of
\* the exchange response tagged piper_raw_secret.  Both results carry the
\* credential id of the mapping response and the user context of the call.
C21_SecretResultTagged ==
    [][SecretStep =>
        LET c == last'
            n == Len(c.log)
            x == c.oracle[n]
        IN  /\ ( /\ ~c.args.fetch_raw_secret
                 /\ n > 0 /\ c.log[n].to = "scoped"
                 /\ Success(x) /\ ScopedComplete(x) )
               => c.out = Return(SecretResult("piper_sts", x.access_token,
                                              ResolvedCredential(c).id,
                                              ContextUsed(c, discovered)))
            /\ ( /\ c.args.fetch_raw_secret
                 /\ n > 0 /\ c.log[n].to = "exchange"
                 /\ Success(x) /\ x.form = "obj" /\ Truthy(x.secret_value) )
               => c.out = Return(SecretResult("piper_raw_secret", x.secret_value,
                                              ResolvedCredential(c).id,
                                              ContextUsed(c, discovered)))]_vars

\* A raw secret was returned for the second credential under the discovered
\* user context
C21_Witness ==
    /\ last.op = "get_secret"
    /\ last.args.instance_id = None
    /\ last.out.kind = "return"
    /\ last.out.value = SecretResult("piper_raw_secret", "raw1", "cred2", "u2")

\* C22: a call on one client instance (discovery that succeeds or fails, a
\* token fetch, a call whose token is rejected with 401) leaves the cached
\* user context and every token-cache entry of the other instance unchanged.
C22_CachesPerInstance ==
    [][\A who \in Clients :
          (last.op = "none" /\ last'.op # "none" /\ last'.args.client = who) =>
              /\ who = 1 => peer' = peer
              /\ who = 2 => /\ discovered' = discovered
                            /\ access_tokens' = access_tokens
                            /\ token_expiries' = token_expiries]_vars

\* The second client's token was rejected with 401 and its expiry zeroed
\* while the first client holds a token for the same key, the two clients
\* caching different user contexts
C22_Witness ==
    /\ last.op = "get_credential_id_for_variable"
    /\ last.args.client = 2
    /\ \E k \in DOMAIN peer.exps \cap DOMAIN token_expiries :
          peer.exps[k] = 0 /\ token_expiries[k] > 0
    /\ discovered # peer.disc

\* No thread is inside a section that reads or writes the token cache
Quiescent ==
    IF threads.guard = "none"
    THEN \A i \in ThreadIds : threads.t[i].pc \in {"idle", "post"}
    ELSE threads.holder = 0

\* The expiry stored for key k was written for the token stored for k: it
\* comes from the response that gave that token ...
StoredPair(k) ==
    k \in DOMAIN access_tokens =>
        /\ k \in DOMAIN token_expiries
        /\ k \in DOMAIN threads.expiry_of
        /\ token_expiries[k] # 0 => threads.expiry_of[k] = access_tokens[k]

\* ... or is the zero written when that token was rejected with 401
RejectedOnly(k) ==
    (k \in DOMAIN token_expiries /\ token_expiries[k] = 0) =>
        /\ k \in DOMAIN access_tokens
        /\ threads.expiry_of[k] = access_tokens[k]

TokenCacheConsistent ==
    \A k \in DOMAIN access_tokens \cup DOMAIN token_expiries :
        StoredPair(k) /\ RejectedOnly(k)

\* C23 as stated: with a guard around every read-modify-write sequence of
\* the cache, the token cache is consistent in every interleaving of two
\* threads.
C23_GuardedConsistent_AnyGuard ==
    (threads.guard # "none" /\ Quiescent) => TokenCacheConsistent

\* C23: when two threads share a client, the stored token and the stored
\* expiry of a key come from the same token response in every interleaving
\* if the read-modify-write of _get_valid_agent_token runs under a guard; a
\* 401 zeroes only the expiry of the rejected token if the guard is held
\* from the cache read to the end of the call.
C23_GuardedConsistent ==
    /\ (threads.guard = "rmw" /\ Quiescent) => \A k \in DOMAIN access_tokens : StoredPair(k)
    /\ (threads.guard = "call" /\ Quiescent) => TokenCacheConsistent

\* Without a guard: both threads fetched a token for the key, and the stored
\* token and the stored expiry come from different responses
C23_Witness ==
    /\ threads.guard = "none"
    /\ \A i \in ThreadIds : threads.t[i].pc = "post" /\ threads.t[i].access_token # None
    /\ ~StoredPair(ThreadKey)

\* The cache keys whose token or expiry a step writes
KeysWritten ==
    {k \in DOMAIN access_tokens' \cup DOMAIN token_expiries' :
        \/ k \notin DOMAIN access_tokens \/ k \notin DOMAIN token_expiries
        \/ access_tokens'[k] # access_tokens[k]
        \/ token_expiries'[k] # token_expiries[k]}

\* C24: a call of get_scoped_credentials_for_variable sends at most one
\* discovery request, as its first request and only when no id is given or
\* cached; every later request (the two token requests, the mapping and the
\* scoped request) and every cache entry the call writes is for the user
\* context resolved at the start.
C24_ContextResolvedOnce ==
    [][(last.op = "none" /\ last'.op = VariableCall) =>
        LET c == last'
        IN  /\ \A j \in 1..Len(c.log) :
                   IF c.log[j].to = "discovery"
                   THEN j = 1 /\ ~Truthy(c.args.instance_id) /\ ~Truthy(discovered)
                   ELSE c.log[j].hint = ContextUsed(c, discovered)
            /\ \A k \in KeysWritten : k[2] = ContextUsed(c, discovered)]_vars

\* The call discovered the context, then fetched a token for each of the two
\* audiences
C24_Witness ==
    /\ last.op = VariableCall
    /\ Len(last.log) = 5
    /\ last.log[1].to = "discovery"
    /\ last.log[2].to = "token" /\ last.log[2].audience = resolve_mapping_url
    /\ last.log[4].to = "token" /\ last.log[4].audience = get_scoped_url
    /\ last.log[2].hint = last.log[4].hint

PublicCalls == {ResolveCall, ScopedCall, VariableCall}

\* C25: a token request of _get_valid_agent_token carries the hint
\* piper_link_instance_id exactly when the instance id it was called with is
\* non-empty, and the hint is that id; every token request of a public
\* broker operation carries a non-empty hint.
C25_TokenRequestHint ==
    \A j \in 1..Len(last.log) :
        last.log[j].to = "token" =>
            /\ last.op = "_get_valid_agent_token" =>
                   last.log[j].hint = (IF last.args.instance_id \in {None, ""}
                                       THEN None ELSE last.args.instance_id)
            /\ last.op \in PublicCalls => last.log[j].hint \notin {None, ""}

\* _get_valid_agent_token was called without a user context and sent a
\* token request without the hint
C25_Witness ==
    /\ last.op = "_get_valid_agent_token"
    /\ last.args.instance_id = ""
    /\ Len(last.log) = 1
    /\ last.log[1].to = "token"
    /\ last.log[1].hint = None

\* The requests of call c to the mapping endpoint
MappingRequests(c) == {j \in 1..Len(c.log) : c.log[j].to = "mapping"}

\* A call of get_credential_id_for_variable with these arguments and answers
\* resolves a user context, has a valid variable name and obtains a token
PassesToMapping(c) ==
    LET g == get_instance_id_or_raise(R0, c.args.instance_id, c.oracle)
    IN  /\ g.out.kind = "return"
        /\ Truthy(c.args.variable_name) /\ IsStr(c.args.variable_name)
        /\ Truthy(Strip(c.args.variable_name))
        /\ get_valid_agent_token(g.r, resolve_mapping_url, g.out.value, FALSE,
                                 c.oracle).out.kind = "return"

\* C26: every call of get_credential_id_for_variable that resolves a
\* context, has a valid name and obtains a token sends exactly one request to
\* the mapping endpoint, and an identifier it returns is the credentialId of
\* the answer to that request.
C26_CredentialIdNotCached ==
    [][(last.op = "none" /\ last'.op = ResolveCall /\ PassesToMapping(last')) =>
        /\ Cardinality(MappingRequests(last')) = 1
        /\ last'.out.kind = "return" =>
               \A j \in MappingRequests(last') :
                   last'.out.value = last'.oracle[j].credentialId]_vars

\* The token came from the cache, the mapping endpoint was asked all the same
\* and its second identifier was returned
C26_Witness ==
    /\ last.op = ResolveCall
    /\ Len(last.log) = 1
    /\ last.log[1].to = "mapping"
    /\ last.out = Return("cred2")

\* The cache key of a call of _get_valid_agent_token
KeyOf(c) == CacheKey(c.args.audience, c.args.instance_id)

\* C27: a call of _get_valid_agent_token whose token request fails (HTTP
\* error, transport failure, body without access_token) leaves both maps of
\* the token cache as they were, and the entry of its key is still not
\* served from the cache afterwards unless it was valid before a forced
\* refresh.
C27_FailedFetchKeepsCache ==
    [][(/\ last.op = "none"
        /\ last'.op = "_get_valid_agent_token"
        /\ Len(last'.log) > 0
        /\ last'.out.kind = "raise") =>
        /\ access_tokens' = access_tokens
        /\ token_expiries' = token_expiries
        /\ ~last'.args.force_refresh =>
               ~CacheValid(FALSE, Get(access_tokens', KeyOf(last'), None),
                           Get(token_expiries', KeyOf(last'), 0), now')]_vars

\* The refresh of an expired entry failed and the entry is still there
C27_Witness ==
    /\ last.op = "_get_valid_agent_token"
    /\ ~last.args.force_refresh
    /\ last.out.kind = "raise"
    /\ KeyOf(last) \in DOMAIN access_tokens
    /\ access_tokens[KeyOf(last)] = Token(1)
    /\ token_expiries[KeyOf(last)] > 0

\* C28: the token map and the expiry map have the same keys after every
\* call, and an expiry zeroed by a 401 belongs to a key that holds a token.
C28_SameKeySets ==
    /\ DOMAIN access_tokens = DOMAIN token_expiries
    /\ \A k \in DOMAIN token_expiries :
          token_expiries[k] = 0 => Truthy(access_tokens[k])

\* A broker call was answered 401 and the expiry of its key is zero
C28_Witness ==
    /\ last.op \in BrokerCalls
    /\ Len(last.log) > 0
    /\ Endpoint401(last, Len(last.log))
    /\ \E k \in DOMAIN token_expiries :
          /\ token_expiries[k] = 0
          /\ k[2] = last.log[Len(last.log)].hint

\* Call c of discover_local_instance_id made an attempt that found no id
FailedAttempt(c) ==
    c.op = DiscoverCall /\ Len(c.log) = 1 /\ ~FoundId(c.oracle[1])

\* C29: a discovery attempt that fails, forced or not, leaves no cached id;
\* a context resolution without explicit id that follows it sends a
\* discovery request, returns the id found by it and raises
\* PiperLinkNeededError if none is found.
C29_FailedDiscoveryClears ==
    [][/\ FailedAttempt(last') => discovered' = None
       /\ (FailedAttempt(last) /\ last'.op = ContextCall) =>
             /\ Len(last'.log) = 1
             /\ last'.log[1].to = "discovery"
             /\ IF FoundId(last'.oracle[1])
                THEN last'.out = Return(last'.oracle[1].instanceId)
                ELSE /\ last'.out.kind = "raise"
                     /\ last'.out.exc.cls = "PiperLinkNeededError"]_vars

\* A forced attempt failed and no id is cached
C29_Witness ==
    /\ FailedAttempt(last)
    /\ last.args.force_refresh
    /\ last.oracle[1].net = "ok"
    /\ last.oracle[1].status = 500
    /\ discovered = None

\* The lifetime the client reads in the token response x: expires_in when it
\* is an integer or the decimal string of one, else 0
Lifetime(x) == IF x.expires_in.t \in {"int", "numstr"} THEN x.expires_in.n ELSE 0

\* The token response x gives a token that is short-lived for the cache
ShortLived(x) ==
    /\ x.net = "ok" /\ x.status < 400 /\ x.form = "obj"
    /\ x.access_token = "fresh"
    /\ Lifetime(x) <= 60

\* C30: a token whose response gives a lifetime of at most 60 seconds (or no
\* usable expires_in) is returned by the call that fetched it and stored
\* with an expiry not greater than now + 60; and a call without force_refresh
\* for a key whose stored expiry is not greater than now + 60 is never
\* answered from the cache: it sends a token request.  Time not going back,
\* every later call for the key requests a new token.
C30_ShortLivedNeverServed ==
    [][\A a \in Audiences, i \in AllInstanceIds, f \in BOOLEAN :
          CallsToken(a, i, f) =>
              /\ (Len(last'.log) = 1 /\ ShortLived(last'.oracle[1])) =>
                     /\ last'.out = Return(Token(Len(issued')))
                     /\ access_tokens'[<<a, i>>] = Token(Len(issued'))
                     /\ token_expiries'[<<a, i>>] <= now' + 60
              /\ ( /\ <<a, i>> \in DOMAIN token_expiries
                   /\ token_expiries[<<a, i>>] <= now + 60 ) =>
                     /\ Len(last'.log) = 1
                     /\ last'.log[1].to = "token"]_vars

\* A second token was fetched for a key at the time of the first, without
\* force_refresh, and lives exactly as long as the buffer
C30_Witness ==
    /\ last.op = DirectCall
    /\ ~last.args.force_refresh
    /\ Len(last.log) = 1
    /\ ShortLived(last.oracle[1])
    /\ Lifetime(last.oracle[1]) = 60
    /\ last.out.kind = "return"
    /\ Len(issued) = 2
    /\ issued[1] = issued[2]
    /\ now = StartTime

====
